---- MODULE Spec2Model ----
(***************************************************************************)
(* lwan request reader, parser and dispatch driver (lwan-request.c).       *)
(*                                                                         *)
(* Bytes are integers 0..255.  Pointers into the request buffer are        *)
(* 1-based indices into the sequence buf (buffer->value = 1), NULL is 0.   *)
(* A function that mutates the buffer and several objects is an operator   *)
(* from a machine record m to a machine record; m.ret is its return value. *)
(***************************************************************************)
EXTENDS Integers, Sequences, FiniteSets, TLC

(***************************************************************************)
(* Bounds of the model.                                                    *)
(***************************************************************************)
\* size of the per-connection request buffer (4096 in the program)
DEFAULT_BUFFER_SIZE == 64
\* number of lwan_process_request calls made on the connection
MaxCalls == 3
\* the largest number of pairs in a key-value list
MaxPairs == 33

(***************************************************************************)
(* Program constants.                                                      *)
(***************************************************************************)
NULL == 0
HTTP_OK == 200
HTTP_BAD_REQUEST == 400
HTTP_NOT_AUTHORIZED == 401
HTTP_NOT_FOUND == 404
HTTP_NOT_ALLOWED == 405
HTTP_TIMEOUT == 408
HTTP_TOO_LARGE == 413
HTTP_INTERNAL_ERROR == 500
HTTP_NOT_IMPLEMENTED == 501
\* int packets_remaining = 16
PACKETS == 16
\* if (helper->urls_rewritten > 4)
MAX_REWRITES == 4
\* sizeof(hdr->v1.line)
V1_LINE_SIZE == 108
\* sizeof(hdr->v2)
V2_SIZE == 52
\* proto_signature_length
PROTO_SIGNATURE_LENGTH == 16

(***************************************************************************)
(* Byte literals.                                                          *)
(***************************************************************************)
Printable ==
    << " ", "!", "dq", "#", "$", "%", "&", "sq", "(", ")", "*", "+", ",", "-", ".", "/",
       "0", "1", "2", "3", "4", "5", "6", "7", "8", "9", ":", ";", "<", "=", ">", "?",
       "@", "A", "B", "C", "D", "E", "F", "G", "H", "I", "J", "K", "L", "M", "N", "O",
       "P", "Q", "R", "S", "T", "U", "V", "W", "X", "Y", "Z", "[", "bs", "]", "^", "_",
       "bt", "a", "b", "c", "d", "e", "f", "g", "h", "i", "j", "k", "l", "m", "n", "o",
       "p", "q", "r", "s", "t", "u", "v", "w", "x", "y", "z", "{", "|", "}", "~" >>

\* the ASCII code of a character written as a one-character string
Ord(c) ==
    CASE c = "CR" -> 13
      [] c = "LF" -> 10
      [] c = "TAB" -> 9
      [] c = "NUL" -> 0
      [] OTHER -> 31 + (CHOOSE i \in 1..Len(Printable) : Printable[i] = c)

\* a string literal, written as a tuple of characters
Str(s) == [i \in 1..Len(s) |-> Ord(s[i])]

CR == 13
LF == 10
CRLF == <<13, 10>>

SetMin(S) == CHOOSE x \in S : \A y \in S : x <= y
SetMax(S) == CHOOSE x \in S : \A y \in S : x >= y
Min2(a, b) == IF a < b THEN a ELSE b

(***************************************************************************)
(* Memory access and the libc string functions, on the request buffer.     *)
(* A read outside the buffer array yields NUL, a write outside it is       *)
(* dropped.                                                                *)
(***************************************************************************)
At(b, p) == IF p \in 1..Len(b) THEN b[p] ELSE 0
Put(b, p, v) == IF p \in 1..Len(b) THEN [b EXCEPT ![p] = v] ELSE b
Tag4(b, p) == <<At(b, p), At(b, p + 1), At(b, p + 2), At(b, p + 3)>>
Tag2(b, p) == <<At(b, p), At(b, p + 1)>>

\* memchr(p, c, n); a negative n is a size_t that wrapped: the scan runs on
memchr(b, p, c, n) ==
    LET last == IF n < 0 THEN Len(b) ELSE Min2(p + n - 1, Len(b))
        hits == {i \in p..last : b[i] = c}
    IN  IF hits = {} THEN NULL ELSE SetMin(hits)

\* memrchr(p, c, n)
memrchr(b, p, c, n) ==
    LET last == Min2(p + n - 1, Len(b))
        hits == {i \in p..last : b[i] = c}
    IN  IF hits = {} THEN NULL ELSE SetMax(hits)

\* the position of the NUL that ends the C string at p
StrEnd(b, p) ==
    LET nuls == {i \in p..Len(b) : b[i] = 0}
    IN  IF nuls = {} THEN Len(b) + 1 ELSE SetMin(nuls)

\* the bytes of the C string at p
CStr(b, p) == IF p > Len(b) THEN <<>> ELSE SubSeq(b, p, StrEnd(b, p) - 1)

\* strchr(p, c), c # NUL
strchr(b, p, c) ==
    LET hits == {i \in p..(StrEnd(b, p) - 1) : b[i] = c}
    IN  IF hits = {} THEN NULL ELSE SetMin(hits)

\* strrchr(p, c), c # NUL
strrchr(b, p, c) ==
    LET hits == {i \in p..(StrEnd(b, p) - 1) : b[i] = c}
    IN  IF hits = {} THEN NULL ELSE SetMax(hits)

\* memmove(dst, src, n) inside the buffer
memmove(b, dst, src, n) ==
    [i \in 1..Len(b) |-> IF i >= dst /\ i < dst + n THEN At(b, src + (i - dst)) ELSE b[i]]

IsDigit(ch) == ch >= 48 /\ ch <= 57

RECURSIVE DecimalValue(_)
DecimalValue(s) ==
    IF s = <<>> THEN 0
    ELSE 10 * DecimalValue(SubSeq(s, 1, Len(s) - 1)) + (s[Len(s)] - 48)

\* strtoul(s, &end, 10) followed by the caller's test *end == NUL test: [ok, value].
\* An empty string converts to 0 with end = s, which passes that test.
strtoul(s) ==
    IF \A i \in 1..Len(s) : IsDigit(s[i])
    THEN IF Len(s) <= 6 THEN [ok |-> TRUE, value |-> DecimalValue(s)]
         ELSE [ok |-> FALSE, value |-> 0]
    ELSE [ok |-> FALSE, value |-> 0]

\* the fields of s between occurrences of sep
RECURSIVE Split(_, _)
Split(s, sep) ==
    LET hits == {i \in 1..Len(s) : s[i] = sep}
    IN  IF hits = {} THEN <<s>>
        ELSE <<SubSeq(s, 1, SetMin(hits) - 1)>> \o Split(SubSeq(s, SetMin(hits) + 1, Len(s)), sep)

\* inet_pton(AF_INET, s, &addr): [ok, addr]
inet_pton4(s) ==
    LET parts == Split(s, 46)
        good == /\ Len(parts) = 4
                /\ \A k \in 1..4 :
                      /\ Len(parts[k]) \in 1..3
                      /\ \A i \in 1..Len(parts[k]) : IsDigit(parts[k][i])
                      /\ DecimalValue(parts[k]) <= 255
    IN  IF good THEN [ok |-> TRUE, addr |-> [k \in 1..4 |-> DecimalValue(parts[k])]]
        ELSE [ok |-> FALSE, addr |-> <<>>]

(***************************************************************************)
(* Byte utilities.                                                         *)
(***************************************************************************)
\* is_hex_digit
is_hex_digit(ch) ==
    \/ (ch >= 48 /\ ch <= 57)
    \/ (ch >= 97 /\ ch <= 102)
    \/ (ch >= 65 /\ ch <= 70)

\* decode_hex_digit: (ch <= '9') ? ch - '0' : (ch & 7) + 9
decode_hex_digit(ch) == IF ch <= 57 THEN ch - 48 ELSE (ch % 8) + 9

\* has_zero_byte, on the four byte lanes of n
has_zero_byte(lanes) == \E k \in 1..4 : lanes[k] = 0

\* c ^ d for one byte lane: zero exactly when the bytes are equal
XorIsZero(c, d) == c = d

\* is_space: has_zero_byte((0x1010101U * ch) ^ 0x090a0d20U)
is_space(ch) ==
    LET spaces == <<9, 10, 13, 32>>
    IN  has_zero_byte([k \in 1..4 |-> IF XorIsZero(ch, spaces[k]) THEN 0 ELSE 1])

\* ignore_leading_whitespace
RECURSIVE ignore_leading_whitespace(_, _)
ignore_leading_whitespace(b, buffer) ==
    IF At(b, buffer) # 0 /\ is_space(At(b, buffer))
    THEN ignore_leading_whitespace(b, buffer + 1)
    ELSE buffer

\* url_decode: the loop over ch, decoded
RECURSIVE url_decode_loop(_, _, _, _)
url_decode_loop(b, str, ch, decoded) ==
    IF At(b, ch) = 0
    THEN [buf |-> Put(b, decoded, 0), ret |-> decoded - str]
    ELSE IF At(b, ch) = 37 /\ is_hex_digit(At(b, ch + 1)) /\ is_hex_digit(At(b, ch + 2))
    THEN LET tmp == (decode_hex_digit(At(b, ch + 1)) * 16 + decode_hex_digit(At(b, ch + 2))) % 256
         IN  IF tmp = 0 THEN [buf |-> b, ret |-> 0]
             ELSE url_decode_loop(Put(b, decoded, tmp), str, ch + 3, decoded + 1)
    ELSE IF At(b, ch) = 43
    THEN url_decode_loop(Put(b, decoded, 32), str, ch + 1, decoded + 1)
    ELSE url_decode_loop(Put(b, decoded, At(b, ch)), str, ch + 1, decoded + 1)

\* url_decode(str): [buf, ret]
url_decode(b, str) ==
    IF str = NULL THEN [buf |-> b, ret |-> 0] ELSE url_decode_loop(b, str, str, str)

\* a method switch that takes "PUT " for "GET "
get_http_method_put(b, p) ==
    IF Tag4(b, p) \in {Str(<<"G", "E", "T", " ">>), Str(<<"P", "U", "T", " ">>)}
    THEN {"REQUEST_METHOD_GET"}
    ELSE IF Tag4(b, p) = Str(<<"H", "E", "A", "D">>) THEN {"REQUEST_METHOD_HEAD"}
    ELSE IF Tag4(b, p) = Str(<<"P", "O", "S", "T">>) THEN {"REQUEST_METHOD_POST"}
    ELSE {}

\* get_http_method: the method flag of the four bytes at p, or no flag
get_http_method(b, p) ==
    IF Tag4(b, p) = Str(<<"G", "E", "T", " ">>) THEN {"REQUEST_METHOD_GET"}
    ELSE IF Tag4(b, p) = Str(<<"H", "E", "A", "D">>) THEN {"REQUEST_METHOD_HEAD"}
    ELSE IF Tag4(b, p) = Str(<<"P", "O", "S", "T">>) THEN {"REQUEST_METHOD_POST"}
    ELSE {}

\* strsep_char(strp, delim): [buf, ret]
strsep_char(b, strp, delim) ==
    IF strp = NULL THEN [buf |-> b, ret |-> NULL]
    ELSE LET ptr == strchr(b, strp, delim)
         IN  IF ptr = NULL THEN [buf |-> b, ret |-> NULL]
             ELSE [buf |-> Put(b, ptr, 0), ret |-> ptr + 1]

\* parse_ascii_port(port, out): [ok, port]
parse_ascii_port(b, port) ==
    LET parsed == strtoul(CStr(b, port))
    IN  IF ~parsed.ok THEN [ok |-> FALSE, port |-> 0]
        ELSE IF parsed.value % 65536 # parsed.value THEN [ok |-> FALSE, port |-> 0]
        ELSE [ok |-> TRUE, port |-> parsed.value]

\* inet_pton(AF_INET6, s, &addr): [ok, addr]; the address is kept as its text
inet_pton6(s) ==
    LET good == /\ Len(s) \in 2..39
                /\ \A i \in 1..Len(s) : is_hex_digit(s[i]) \/ s[i] = 58
                /\ Cardinality({i \in 1..Len(s) : s[i] = 58}) >= 2
    IN  IF good THEN [ok |-> TRUE, addr |-> s] ELSE [ok |-> FALSE, addr |-> <<>>]

\* parse_long(value, default_value) of lwan-config: the decimal value of the
\* string, default_value when it is no number
parse_long(s, default_value) ==
    IF s # <<>> /\ Len(s) <= 6 /\ \A i \in 1..Len(s) : IsDigit(s[i])
    THEN DecimalValue(s)
    ELSE IF Len(s) \in 2..6 /\ s[1] = 45 /\ \A i \in 2..Len(s) : IsDigit(s[i])
    THEN 0 - DecimalValue(SubSeq(s, 2, Len(s)))
    ELSE default_value

(***************************************************************************)
(* The objects of one lwan_process_request call.                           *)
(***************************************************************************)
\* lwan_value_t
Slice(value, len) == [value |-> value, len |-> len]
NoSlice == Slice(NULL, 0)

\* struct request_parser_helper helper = { .buffer = buffer, .next_request = next_request }
NewHelper(next) ==
    [ next_request |-> next,
      accept_encoding |-> NoSlice,
      if_modified_since |-> NoSlice,
      range |-> NoSlice,
      cookie |-> NoSlice,
      query_string |-> NoSlice,
      fragment |-> NoSlice,
      content_length |-> NoSlice,
      post_data |-> NoSlice,
      content_type |-> NoSlice,
      authorization |-> NoSlice,
      urls_rewritten |-> 0,
      connection |-> 0 ]

\* one peer address of lwan_proxy_t
NoAddr == [family |-> "uninitialized", addr |-> <<>>, port |-> 0]
\* lwan_proxy_t
NoProxy == [from |-> NoAddr, to |-> NoAddr]

(***************************************************************************)
(* PROXY-protocol reader.                                                  *)
(***************************************************************************)
\* the TCP4 case of parse_proxy_protocol_v1
proxy_v1_tcp4(m, b, size, buffer, src_addr, dst_addr, src_port, dst_port) ==
    LET p0 == [m.proxy EXCEPT !.from.family = "AF_INET", !.to.family = "AF_INET"]
        a1 == inet_pton4(CStr(b, src_addr))
        p1 == [p0 EXCEPT !.from.addr = a1.addr]
        a2 == inet_pton4(CStr(b, dst_addr))
        p2 == [p1 EXCEPT !.to.addr = a2.addr]
        o1 == parse_ascii_port(b, src_port)
        p3 == [p2 EXCEPT !.from.port = o1.port]
        o2 == parse_ascii_port(b, dst_port)
        p4 == [p3 EXCEPT !.to.port = o2.port]
    IN  IF ~a1.ok THEN [m EXCEPT !.buf = b, !.proxy = p0, !.ret = NULL]
        ELSE IF ~a2.ok THEN [m EXCEPT !.buf = b, !.proxy = p1, !.ret = NULL]
        ELSE IF ~o1.ok THEN [m EXCEPT !.buf = b, !.proxy = p2, !.ret = NULL]
        ELSE IF ~o2.ok THEN [m EXCEPT !.buf = b, !.proxy = p3, !.ret = NULL]
        ELSE [m EXCEPT !.buf = b, !.proxy = p4,
                       !.flags = @ \cup {"REQUEST_PROXIED"}, !.ret = buffer + size]

\* the TCP6 case of parse_proxy_protocol_v1
proxy_v1_tcp6(m, b, size, buffer, src_addr, dst_addr, src_port, dst_port) ==
    LET p0 == [m.proxy EXCEPT !.from.family = "AF_INET6", !.to.family = "AF_INET6"]
        a1 == inet_pton6(CStr(b, src_addr))
        p1 == [p0 EXCEPT !.from.addr = a1.addr]
        a2 == inet_pton6(CStr(b, dst_addr))
        p2 == [p1 EXCEPT !.to.addr = a2.addr]
        o1 == parse_ascii_port(b, src_port)
        p3 == [p2 EXCEPT !.from.port = o1.port]
        o2 == parse_ascii_port(b, dst_port)
        p4 == [p3 EXCEPT !.to.port = o2.port]
    IN  IF ~a1.ok THEN [m EXCEPT !.buf = b, !.proxy = p0, !.ret = NULL]
        ELSE IF ~a2.ok THEN [m EXCEPT !.buf = b, !.proxy = p1, !.ret = NULL]
        ELSE IF ~o1.ok THEN [m EXCEPT !.buf = b, !.proxy = p2, !.ret = NULL]
        ELSE IF ~o2.ok THEN [m EXCEPT !.buf = b, !.proxy = p3, !.ret = NULL]
        ELSE [m EXCEPT !.buf = b, !.proxy = p4,
                       !.flags = @ \cup {"REQUEST_PROXIED"}, !.ret = buffer + size]

\* parse_proxy_protocol_v1
parse_proxy_protocol_v1(m, buffer) ==
    LET end == memchr(m.buf, buffer, CR, V1_LINE_SIZE)
    IN  IF end = NULL \/ At(m.buf, end + 1) # LF THEN [m EXCEPT !.ret = NULL]
        ELSE
        LET b0 == Put(m.buf, end, 0)
            size == end + 2 - buffer
            protocol == buffer + 6
            s1 == strsep_char(b0, protocol, 32)
            s2 == strsep_char(s1.buf, s1.ret, 32)
            s3 == strsep_char(s2.buf, s2.ret, 32)
            s4 == strsep_char(s3.buf, s3.ret, 32)
        IN  IF s4.ret = NULL THEN [m EXCEPT !.buf = s4.buf, !.ret = NULL]
            ELSE IF Tag4(s4.buf, protocol) = Str(<<"T", "C", "P", "4">>)
            THEN proxy_v1_tcp4(m, s4.buf, size, buffer, s1.ret, s2.ret, s3.ret, s4.ret)
            ELSE IF Tag4(s4.buf, protocol) = Str(<<"T", "C", "P", "6">>)
            THEN proxy_v1_tcp6(m, s4.buf, size, buffer, s1.ret, s2.ret, s3.ret, s4.ret)
            ELSE [m EXCEPT !.buf = s4.buf, !.ret = NULL]

\* the bytes b[p .. p+n-1] of the header, as read by the v2 field accesses
Bytes(b, p, n) == [i \in 1..n |-> At(b, p + i - 1)]

\* parse_proxy_protocol_v2
parse_proxy_protocol_v2(m, buffer) ==
    LET b == m.buf
        cmd_ver == At(b, buffer + 12)
        fam == At(b, buffer + 13)
        \* ntohs(hdr->v2.len)
        len == At(b, buffer + 14) * 256 + At(b, buffer + 15)
        size == PROTO_SIGNATURE_LENGTH + len
        a == buffer + 16
    IN  IF size > V2_SIZE THEN [m EXCEPT !.ret = NULL]
        ELSE IF cmd_ver = 32
        THEN [m EXCEPT !.proxy.from.family = "AF_UNSPEC", !.proxy.to.family = "AF_UNSPEC",
                       !.flags = @ \cup {"REQUEST_PROXIED"}, !.ret = buffer + size]
        ELSE IF cmd_ver = 33
        THEN IF fam = 17
             THEN [m EXCEPT !.proxy = [from |-> [family |-> "AF_INET",
                                                 addr |-> Bytes(b, a, 4),
                                                 port |-> At(b, a + 8) * 256 + At(b, a + 9)],
                                       to |-> [family |-> "AF_INET",
                                               addr |-> Bytes(b, a + 4, 4),
                                               port |-> At(b, a + 10) * 256 + At(b, a + 11)]],
                            !.flags = @ \cup {"REQUEST_PROXIED"}, !.ret = buffer + size]
             ELSE IF fam = 33
             THEN [m EXCEPT !.proxy = [from |-> [family |-> "AF_INET6",
                                                 addr |-> Bytes(b, a, 16),
                                                 port |-> At(b, a + 32) * 256 + At(b, a + 33)],
                                       to |-> [family |-> "AF_INET6",
                                               addr |-> Bytes(b, a + 16, 16),
                                               port |-> At(b, a + 34) * 256 + At(b, a + 35)]],
                            !.flags = @ \cup {"REQUEST_PROXIED"}, !.ret = buffer + size]
             ELSE [m EXCEPT !.ret = NULL]
        ELSE [m EXCEPT !.ret = NULL]

\* parse_proxy_protocol
parse_proxy_protocol(m, buffer) ==
    LET m0 == [m EXCEPT !.proxy_calls = @ + 1]
        \* preamble_end keeps the returned cursor for the observations
        returned(m1) == [m1 EXCEPT !.preamble_end = m1.ret]
    IN  IF Tag4(m.buf, buffer) = Str(<<"P", "R", "O", "X">>)
        THEN returned(parse_proxy_protocol_v1(m0, buffer))
        ELSE IF Tag4(m.buf, buffer) = <<13, 10, 13, 10>>
        THEN returned(parse_proxy_protocol_v2(m0, buffer))
        ELSE returned([m0 EXCEPT !.ret = buffer])

(***************************************************************************)
(* Request line and path.                                                  *)
(***************************************************************************)
\* sizes[flags] of identify_http_method
method_size(flags) ==
    IF flags = {"REQUEST_METHOD_GET"} THEN 4
    ELSE IF flags = {"REQUEST_METHOD_HEAD"} THEN 5
    ELSE IF flags = {"REQUEST_METHOD_POST"} THEN 5
    ELSE 0

\* identify_http_method
identify_http_method(m, buffer) ==
    LET flags == get_http_method(m.buf, buffer)
    IN  [m EXCEPT !.flags = @ \cup flags, !.ret = buffer + method_size(flags)]

\* parse_fragment_and_query
parse_fragment_and_query(m, space) ==
    LET fragment == memrchr(m.buf, m.url.value, 35, m.url.len)
        m1 == IF fragment # NULL
              THEN [m EXCEPT !.buf = Put(@, fragment, 0),
                             !.helper.fragment = Slice(fragment + 1, space - fragment - 1),
                             !.url.len = @ - ((space - fragment - 1) + 1)]
              ELSE m
        query_string == memchr(m1.buf, m1.url.value, 63, m1.url.len)
        qlen == (IF fragment # NULL THEN fragment ELSE space) - query_string - 1
    IN  IF query_string # NULL
        THEN [m1 EXCEPT !.buf = Put(@, query_string, 0),
                        !.helper.query_string = Slice(query_string + 1, qlen),
                        !.url.len = @ - (qlen + 1)]
        ELSE m1

\* identify_http_path
identify_http_path(m, buffer) ==
    LET end_of_line == memchr(m.buf, buffer, CR, m.len - (buffer - 1))
        b1 == Put(m.buf, end_of_line, 0)
        \* end_of_line - sizeof("HTTP/X.X")
        space == end_of_line - 9
        b2 == Put(b1, space, 0)
        flags2 == IF At(b2, space + 8) = 48
                  THEN m.flags \cup {"REQUEST_IS_HTTP_1_0"} ELSE m.flags
    IN  IF end_of_line = NULL THEN [m EXCEPT !.ret = NULL]
        ELSE IF end_of_line - buffer < 10 THEN [m EXCEPT !.ret = NULL]
        ELSE IF At(b1, space + 1) # 72 THEN [m EXCEPT !.buf = b1, !.ret = NULL]
        ELSE IF At(b2, space + 6) # 49 THEN [m EXCEPT !.buf = b2, !.ret = NULL]
        ELSE IF At(b2, buffer) # 47
        THEN [m EXCEPT !.buf = b2, !.flags = flags2, !.ret = NULL]
        ELSE LET m1 == [m EXCEPT !.buf = b2, !.flags = flags2,
                                 !.url = Slice(buffer, space - buffer)]
                 m2 == parse_fragment_and_query(m1, space)
             IN  [m2 EXCEPT !.original_url = m2.url, !.ret = end_of_line + 1]

(***************************************************************************)
(* Header parser.                                                          *)
(***************************************************************************)
\* the headers matched by CASE_HEADER: 4-byte tag, sizeof(hdr_name) - 1, field
HeaderCases ==
    << [tag |-> Str(<<"-", "E", "n", "c">>), size |-> 9, field |-> "accept_encoding"],
       [tag |-> Str(<<"-", "T", "y", "p">>), size |-> 5, field |-> "content_type"],
       [tag |-> Str(<<"-", "L", "e", "n">>), size |-> 7, field |-> "content_length"],
       [tag |-> Str(<<"A", "u", "t", "h">>), size |-> 13, field |-> "authorization"],
       [tag |-> Str(<<"C", "o", "n", "n">>), size |-> 10, field |-> "connection"],
       [tag |-> Str(<<"C", "o", "o", "k">>), size |-> 6, field |-> "cookie"],
       [tag |-> Str(<<"I", "f", "-", "M">>), size |-> 17, field |-> "if_modified_since"],
       [tag |-> Str(<<"R", "a", "n", "g">>), size |-> 5, field |-> "range"] >>

\* MATCH_HEADER(hdr): where control goes ("return_null", "did_not_match",
\* "matched"), with the buffer, p, value and length at that point
MATCH_HEADER(b, p, size, buffer_end) ==
    LET p1 == p + size
        p2 == p1 + 2
        end == strchr(b, p2, CR)
        b2 == Put(b, end, 0)
        p3 == end + 1
    IN  IF p1 >= buffer_end
        THEN [kind |-> "return_null", buf |-> b, p |-> p1, value |-> NULL, length |-> 0]
        ELSE IF Tag2(b, p1) # Str(<<":", " ">>)
        THEN [kind |-> "did_not_match", buf |-> b, p |-> p1, value |-> NULL, length |-> 0]
        ELSE IF end = NULL
        THEN [kind |-> "did_not_match", buf |-> b, p |-> p2, value |-> NULL, length |-> 0]
        ELSE IF At(b2, p3) # LF
        THEN [kind |-> "did_not_match", buf |-> b2, p |-> p3, value |-> NULL, length |-> 0]
        ELSE [kind |-> "matched", buf |-> b2, p |-> p3, value |-> p2, length |-> end - p2]

\* *value | 0x20
Or0x20(ch) == IF (ch \div 32) % 2 = 0 THEN ch + 32 ELSE ch

\* the assignment that follows a matched CASE_HEADER
store_header(helper, field, b, value, length) ==
    IF field = "connection"
    THEN [helper EXCEPT !.connection = Or0x20(At(b, value))]
    ELSE [helper EXCEPT ![field] = Slice(value, length)]

RECURSIVE parse_headers_retry(_, _, _, _)
RECURSIVE parse_headers_did_not_match(_, _, _, _)

\* parse_headers from the label did_not_match, then the loop's increment and test
parse_headers_did_not_match(m, p, buffer, buffer_end) ==
    LET q == memchr(m.buf, p, LF, buffer_end - p)
    IN  IF q = NULL THEN [m EXCEPT !.ret = buffer]
        ELSE IF At(m.buf, q + 1) = 0 THEN [m EXCEPT !.ret = q + 1]
        ELSE parse_headers_retry(m, q + 1, q + 1, buffer_end)

\* parse_headers from the label retry
parse_headers_retry(m, p, buffer, buffer_end) ==
    LET tag == Tag4(m.buf, p)
        hits == {k \in 1..Len(HeaderCases) : HeaderCases[k].tag = tag}
    IN  IF p + 4 >= buffer_end THEN [m EXCEPT !.ret = buffer]
        ELSE IF Tag2(m.buf, p) = CRLF
        THEN [m EXCEPT !.buf = Put(@, p, 0), !.helper.next_request = p + 2, !.ret = p]
        ELSE IF tag = Str(<<"A", "c", "c", "e">>)
        THEN parse_headers_retry(m, p + 6, buffer, buffer_end)
        ELSE IF tag = Str(<<"C", "o", "n", "t">>)
        THEN parse_headers_retry(m, p + 7, buffer, buffer_end)
        ELSE IF hits # {}
        THEN LET h == HeaderCases[CHOOSE k \in hits : TRUE]
                 r == MATCH_HEADER(m.buf, p, h.size, buffer_end)
             IN  IF r.kind = "return_null" THEN [m EXCEPT !.ret = NULL]
                 ELSE IF r.kind = "matched"
                 THEN parse_headers_did_not_match(
                          [m EXCEPT !.buf = r.buf,
                                    !.helper = store_header(@, h.field, r.buf, r.value, r.length)],
                          r.p, buffer, buffer_end)
                 ELSE parse_headers_did_not_match([m EXCEPT !.buf = r.buf], r.p, buffer, buffer_end)
        ELSE parse_headers_did_not_match(m, p, buffer, buffer_end)

\* parse_headers
parse_headers(m, buffer, buffer_end) ==
    IF At(m.buf, buffer) = 0 THEN [m EXCEPT !.ret = buffer]
    ELSE parse_headers_retry(m, buffer, buffer, buffer_end)

(***************************************************************************)
(* Keep-alive, POST body, and the request parser.                          *)
(***************************************************************************)
\* a keep-alive rule that treats every request like HTTP/1.0
is_keep_alive_1_0(flags, connection) == connection = 107

\* compute_keep_alive_flag: is_keep_alive
is_keep_alive(flags, connection) ==
    IF "REQUEST_IS_HTTP_1_0" \in flags THEN connection = 107 ELSE connection # 99

\* compute_keep_alive_flag
compute_keep_alive_flag(m) ==
    IF is_keep_alive(m.flags, m.helper.connection)
    THEN [m EXCEPT !.conn_flags = @ \cup {"CONN_KEEP_ALIVE"}]
    ELSE [m EXCEPT !.conn_flags = @ \ {"CONN_KEEP_ALIVE"}]

\* read_post_data
read_post_data(m) ==
    LET parsed_length == parse_long(CStr(m.buf, m.helper.content_length.value),
                                    DEFAULT_BUFFER_SIZE)
        post_data_size == parsed_length
        buffer_end == 1 + m.len
        have == buffer_end - m.helper.next_request
    IN  IF m.helper.next_request = NULL THEN [m EXCEPT !.ret = HTTP_BAD_REQUEST]
        ELSE IF m.helper.content_length.value = NULL THEN [m EXCEPT !.ret = HTTP_BAD_REQUEST]
        ELSE IF parsed_length > DEFAULT_BUFFER_SIZE THEN [m EXCEPT !.ret = HTTP_TOO_LARGE]
        ELSE IF parsed_length < 0 THEN [m EXCEPT !.ret = HTTP_BAD_REQUEST]
        ELSE IF have = post_data_size
        THEN [m EXCEPT !.helper.post_data = Slice(m.helper.next_request, post_data_size),
                       !.helper.next_request = @ + post_data_size,
                       !.ret = HTTP_OK]
        ELSE IF post_data_size > have THEN [m EXCEPT !.ret = HTTP_TOO_LARGE]
        ELSE [m EXCEPT !.ret = HTTP_NOT_IMPLEMENTED]

\* a parser that reads the PROXY preamble on every connection
proxy_reqs_allowed_always(flags) == TRUE

\* parse_http_request: if (request->flags & REQUEST_ALLOW_PROXY_REQS)
proxy_reqs_allowed(flags) == "REQUEST_ALLOW_PROXY_REQS" \in flags

\* parse_http_request from identify_http_path on
parse_http_request_path(m, path) ==
    LET decoded(m4, d) ==
            LET computed(m6) ==
                    IF "REQUEST_METHOD_POST" \in m6.flags
                    THEN [read_post_data(m6) EXCEPT !.stage = "post_data"]
                    ELSE [m6 EXCEPT !.ret = HTTP_OK, !.stage = "done"]
            IN  IF d.ret = 0
                THEN [m4 EXCEPT !.buf = d.buf, !.ret = HTTP_BAD_REQUEST, !.stage = "url"]
                ELSE computed(compute_keep_alive_flag(
                         [m4 EXCEPT !.buf = d.buf, !.url.len = d.ret,
                                    !.original_url.len = d.ret]))
        headers_parsed(m4) ==
            IF m4.ret = NULL THEN [m4 EXCEPT !.ret = HTTP_BAD_REQUEST, !.stage = "headers"]
            ELSE decoded(m4, url_decode(m4.buf, m4.url.value))
        path_identified(m3) ==
            IF m3.ret = NULL THEN [m3 EXCEPT !.ret = HTTP_BAD_REQUEST, !.stage = "path"]
            ELSE headers_parsed(parse_headers(m3, m3.ret, 1 + m3.len))
    IN  path_identified(identify_http_path(m, path))

\* parse_http_request; ret is the status, stage the step that returned it
parse_http_request(m) ==
    LET method_identified(m2, buffer) ==
            IF buffer = m2.ret
            THEN IF At(m2.buf, buffer) = 0
                 THEN [m2 EXCEPT !.ret = HTTP_BAD_REQUEST, !.stage = "method"]
                 ELSE [m2 EXCEPT !.ret = HTTP_NOT_ALLOWED, !.stage = "method"]
            ELSE parse_http_request_path(m2, m2.ret)
        whitespace_ignored(m1, buffer) ==
            method_identified(identify_http_method(m1, buffer), buffer)
        preamble_read(m1) ==
            IF m1.ret = NULL THEN [m1 EXCEPT !.ret = HTTP_BAD_REQUEST, !.stage = "proxy"]
            ELSE whitespace_ignored(m1, ignore_leading_whitespace(m1.buf, m1.ret))
    IN  preamble_read(IF proxy_reqs_allowed(m.flags)
                      THEN parse_proxy_protocol(m, 1)
                      ELSE [m EXCEPT !.ret = 1])

(***************************************************************************)
(* Socket reader: the request-head finalizer.                              *)
(***************************************************************************)
\* a finalizer that declares the buffer full one byte early
buffer_full_early(total_read, buffer_size) == total_read >= buffer_size - 1

\* a finalizer that never declares the buffer full
buffer_full_never(total_read, buffer_size) == FALSE

\* read_request_finalizer: if (total_read == buffer_size)
buffer_full(total_read, buffer_size) == total_read = buffer_size

\* a finalizer that forgets the pipelined tail
tail_present_never(next_request) == FALSE

\* read_request_finalizer: if (helper->next_request)
tail_present(next_request) == next_request # NULL

\* read_request_finalizer: [verdict, helper]
read_request_finalizer(total_read, buffer_size, helper, b) ==
    LET post_data_separator == strrchr(b, 1, LF)
    IN  IF total_read < 4
        THEN [verdict |-> "FINALIZER_YIELD_TRY_AGAIN", helper |-> helper]
        ELSE IF buffer_full(total_read, buffer_size)
        THEN [verdict |-> "FINALIZER_ERROR_TOO_LARGE", helper |-> helper]
        ELSE IF tail_present(helper.next_request)
        THEN [verdict |-> "FINALIZER_DONE", helper |-> [helper EXCEPT !.next_request = NULL]]
        ELSE IF Bytes(b, total_read - 3, 4) = <<13, 10, 13, 10>>
        THEN [verdict |-> "FINALIZER_DONE", helper |-> helper]
        ELSE IF /\ get_http_method(b, 1) = {"REQUEST_METHOD_POST"}
                /\ post_data_separator # NULL
                /\ Bytes(b, post_data_separator - 3, 3) = <<13, 10, 13>>
        THEN [verdict |-> "FINALIZER_DONE", helper |-> helper]
        ELSE [verdict |-> "FINALIZER_TRY_AGAIN", helper |-> helper]

(***************************************************************************)
(* Dispatch: prepare_for_response and handle_rewrite.                      *)
(***************************************************************************)
\* prepare_for_response: the strip of leading slashes
RECURSIVE remove_leading_slash(_, _)
remove_leading_slash(b, url) ==
    IF At(b, url.value) = 47 /\ url.len > 0
    THEN remove_leading_slash(b, Slice(url.value + 1, url.len - 1))
    ELSE url

\* a driver that never asks for authorization
must_authorize_never(map) == FALSE

\* prepare_for_response: if (url_map->flags & HANDLER_MUST_AUTHORIZE)
must_authorize(map) == "HANDLER_MUST_AUTHORIZE" \in map.flags

\* a driver that hands every POST to the handler
post_not_allowed_never(map, flags) == FALSE

\* prepare_for_response: a POST for a url_map without HANDLER_PARSE_POST_DATA
post_not_allowed(map, flags) ==
    "REQUEST_METHOD_POST" \in flags /\ "HANDLER_PARSE_POST_DATA" \notin map.flags

\* prepare_for_response; authorized is what lwan_http_authorize returns when it
\* is called.  [status, url, auth_called]
prepare_for_response(map, flags, url, b, authorized) ==
    LET url1 == Slice(url.value + map.prefix_len, url.len - map.prefix_len)
        url2 == IF "HANDLER_REMOVE_LEADING_SLASH" \in map.flags
                THEN remove_leading_slash(b, url1) ELSE url1
    IN  IF post_not_allowed(map, flags)
        THEN [status |-> HTTP_NOT_ALLOWED, url |-> url1, auth_called |-> FALSE]
        ELSE IF must_authorize(map)
        THEN IF ~authorized
             THEN [status |-> HTTP_NOT_AUTHORIZED, url |-> url1, auth_called |-> TRUE]
             ELSE [status |-> HTTP_OK, url |-> url2, auth_called |-> TRUE]
        ELSE [status |-> HTTP_OK, url |-> url2, auth_called |-> FALSE]

\* a limit that lets one more rewrite through
rewrite_limit_exceeded_late(urls_rewritten) == urls_rewritten > MAX_REWRITES + 1

\* handle_rewrite: if (helper->urls_rewritten > 4)
rewrite_limit_exceeded(urls_rewritten) == urls_rewritten > MAX_REWRITES

\* handle_rewrite; ret is TRUE when the lookup is to be repeated
handle_rewrite(m) ==
    LET counted(m3) == [m3 EXCEPT !.ret = ~rewrite_limit_exceeded(m3.helper.urls_rewritten)]
        parsed(m2) == counted([m2 EXCEPT !.helper.urls_rewritten = @ + 1])
        cleared(m1) == parsed(parse_fragment_and_query(m1, m1.url.value + m1.url.len))
    IN  cleared([m EXCEPT !.flags = @ \ {"RESPONSE_URL_REWRITTEN"}])

\* lwan_request_get_remote_address; peer is what getpeername reports
lwan_request_get_remote_address(flags, prx, peer) ==
    IF "REQUEST_PROXIED" \in flags
    THEN IF prx.from.family = "AF_UNSPEC" THEN "*unspecified*" ELSE prx.from.addr
    ELSE peer

(***************************************************************************)
(* Key-value lists: parse_key_values and value_array_bsearch.              *)
(***************************************************************************)
\* const size_t n_elements = 32
N_ELEMENTS == 32

\* strncmp(s1, s2, n) on the bytes of two C strings: -1, 0 or 1
strncmp(s1, s2, n) ==
    LET c1(i) == IF i <= Len(s1) THEN s1[i] ELSE 0
        c2(i) == IF i <= Len(s2) THEN s2[i] ELSE 0
        stop == {i \in 1..n : c1(i) # c2(i) \/ c1(i) = 0}
        at == SetMin(stop)
    IN  IF stop = {} THEN 0
        ELSE IF c1(at) < c2(at) THEN 0 - 1
        ELSE IF c1(at) > c2(at) THEN 1
        ELSE 0

\* strcmp(s1, s2)
strcmp(s1, s2) == strncmp(s1, s2, Len(s1) + Len(s2) + 1)

\* key_value_compare_qsort_key on two entries of the array
key_value_compare_qsort_key(b, x, y) == strcmp(CStr(b, x.key), CStr(b, y.key))

\* the entries that may stand at position pos of the sorted array: those with
\* fewer than pos smaller entries and at least pos entries that are not larger
qsort_candidates(b, kvs, n, pos) ==
    { i \in 1..n :
        /\ Cardinality({j \in 1..n : key_value_compare_qsort_key(b, kvs[j], kvs[i]) < 0}) < pos
        /\ Cardinality({j \in 1..n : key_value_compare_qsort_key(b, kvs[j], kvs[i]) <= 0}) >= pos }

\* the ways to fill the positions lo..hi of the sorted array
RECURSIVE qsort_orders(_, _, _, _, _)
qsort_orders(b, kvs, n, lo, hi) ==
    IF lo > hi THEN {<<>>}
    ELSE IF lo = hi THEN {<<i>> : i \in qsort_candidates(b, kvs, n, lo)}
    ELSE LET mid == (lo + hi) \div 2
         IN  { x \o y : x \in qsort_orders(b, kvs, n, lo, mid),
                        y \in qsort_orders(b, kvs, n, mid + 1, hi) }

\* a qsort that leaves the array as it is
qsort_unsorted(b, kvs, n) == {kvs}

\* qsort(kvs, values, sizeof(lwan_key_value_t), key_value_compare_qsort_key):
\* the orders qsort may leave the first n entries in, every arrangement of
\* them that is sorted (entries with equal keys may end up in any order)
qsort(b, kvs, n) ==
    { [pos \in 1..n |-> kvs[o[pos]]] :
        o \in { f \in qsort_orders(b, kvs, n, 1, n) :
                  \A p1, p2 \in 1..n : f[p1] = f[p2] => p1 = p2 } }

\* identity_decode
identity_decode(b, str) == [buf |-> b, ret |-> 1]

\* decode_value(str) for the decoder the caller passed
decode_value(decoder, b, str) ==
    IF decoder = "url_decode" THEN url_decode(b, str) ELSE identity_decode(b, str)

\* parse_key_values: while (*ptr == ' ' || *ptr == separator) ptr++
RECURSIVE skip_separators(_, _, _)
skip_separators(b, ptr, separator) ==
    IF At(b, ptr) = 32 \/ At(b, ptr) = separator
    THEN skip_separators(b, ptr + 1, separator)
    ELSE ptr

\* a loop test that stops one pair early
room_for_more_early(values, n_elements) == values < n_elements - 1

\* parse_key_values: the loop test, values < n_elements
room_for_more(values, n_elements) == values < n_elements

\* parse_key_values: one pass through the body of the do-while loop and its
\* test, from st = [buf, ptr, kvs].  state tells whether the loop goes on
\* ("loop"), was left by its test ("done"), or the function returned from
\* inside the body ("returned")
parse_key_values_iteration(st, decoder, separator) ==
    LET key == skip_separators(st.buf, st.ptr, separator)
        s1 == strsep_char(st.buf, key, 61)
        s2 == strsep_char(s1.buf, s1.ret, separator)
        d1 == decode_value(decoder, s2.buf, key)
        d2 == decode_value(decoder, d1.buf, s1.ret)
        stored == Append(st.kvs, [key |-> key, value |-> s1.ret])
    IN  IF At(st.buf, key) = 0 THEN [st EXCEPT !.state = "returned"]
        ELSE IF s1.ret = NULL THEN [st EXCEPT !.state = "returned"]
        ELSE IF d1.ret = 0 THEN [st EXCEPT !.buf = d1.buf, !.state = "returned"]
        ELSE IF d2.ret = 0 THEN [st EXCEPT !.buf = d2.buf, !.state = "returned"]
        ELSE [buf |-> d2.buf, ptr |-> s2.ret, kvs |-> stored,
              state |-> IF s2.ret # NULL /\ room_for_more(Len(stored), N_ELEMENTS)
                        THEN "loop" ELSE "done"]

\* lwan_key_value_t *base with its len, before parse_key_values stored one
NoArray == [base |-> <<>>, len |-> 0]

\* parse_key_values up to the loop, on the record k of one key-value list:
\* nothing to do for an empty slice, coro_yield(CONN_CORO_ABORT) when
\* coro_malloc fails, otherwise ptr = helper_value->value and values = 0
parse_key_values(k, decoder, separator) ==
    IF k.slice.len = 0 THEN [k EXCEPT !.pc = "parsed", !.returned = TRUE]
    ELSE IF ~k.allocated THEN [k EXCEPT !.pc = "aborted"]
    ELSE [k EXCEPT !.pc = "loop", !.ptr = k.slice.value, !.decoder = decoder,
                   !.separator = separator]

\* parse_cookies
parse_cookies(k) == parse_key_values(k, "identity_decode", 59)

\* parse_query_string
parse_query_string(k) == parse_key_values(k, "url_decode", 38)

FormContentType ==
    Str(<<"a", "p", "p", "l", "i", "c", "a", "t", "i", "o", "n", "/", "x", "-", "w", "w", "w",
          "-", "f", "o", "r", "m", "-", "u", "r", "l", "e", "n", "c", "o", "d", "e", "d">>)

\* parse_post_data; k.content_type is the C string of helper->content_type
parse_post_data(k) ==
    IF Len(k.content_type) # Len(FormContentType)
    THEN [k EXCEPT !.pc = "parsed", !.returned = TRUE]
    ELSE IF strcmp(k.content_type, FormContentType) # 0
    THEN [k EXCEPT !.pc = "parsed", !.returned = TRUE]
    ELSE parse_key_values(k, "url_decode", 38)

\* a comparison of the whole key
key_compare_whole(key, entry_key) == strcmp(key, entry_key)

\* value_array_bsearch: strncmp(key, ptr->key, key_len)
key_compare(key, entry_key) == strncmp(key, entry_key, Len(key))

\* value_array_bsearch: the while loop
RECURSIVE value_array_bsearch_loop(_, _, _, _, _)
value_array_bsearch_loop(b, base, key, lower_bound, upper_bound) ==
    LET idx == (lower_bound + upper_bound) \div 2
        ptr == base[idx + 1]
        compared(cmp) ==
            IF cmp = 0 THEN ptr.value
            ELSE IF cmp > 0 THEN value_array_bsearch_loop(b, base, key, idx + 1, upper_bound)
            ELSE value_array_bsearch_loop(b, base, key, lower_bound, idx)
    IN  IF lower_bound < upper_bound
        THEN compared(key_compare(key, CStr(b, ptr.key)))
        ELSE NULL

\* value_array_bsearch(base, len, key): the value pointer, or NULL
value_array_bsearch(b, array, key) ==
    IF array.len = 0 THEN NULL
    ELSE value_array_bsearch_loop(b, array.base, key, 0, array.len)

(***************************************************************************)
(* What the client sends on the connection.                                *)
(***************************************************************************)
GET == Str(<<"G", "E", "T", " ">>)
HEAD == Str(<<"H", "E", "A", "D", " ">>)
POST == Str(<<"P", "O", "S", "T", " ">>)
PUT == Str(<<"P", "U", "T", " ">>)

\* "<method><path> HTTP/1.<minor>\r\n"
RequestLine(method, path, minor) ==
    method \o path \o Str(<<" ", "H", "T", "T", "P", "/", "1", ".">>) \o <<minor>> \o CRLF

ConnectionHeader(v) ==
    Str(<<"C", "o", "n", "n", "e", "c", "t", "i", "o", "n", ":", " ">>) \o v \o CRLF

ContentLengthHeader(v) ==
    Str(<<"C", "o", "n", "t", "e", "n", "t", "-", "L", "e", "n", "g", "t", "h", ":", " ">>)
        \o v \o CRLF

\* a request without body
Request(method, path, minor, headers) == RequestLine(method, path, minor) \o headers \o CRLF

\* a POST whose Content-Length is the decimal digit n, with its n body bytes
PostRequest(n) ==
    RequestLine(POST, Str(<<"/">>), 49) \o ContentLengthHeader(<<48 + n>>) \o CRLF
        \o [i \in 1..n |-> 97]

\* a GET whose path is "/" followed by k letters
PadGet(k) == Request(GET, Str(<<"/">>) \o [i \in 1..k |-> 97], 49, <<>>)

Get10 == Request(GET, Str(<<"/">>), 48, <<>>)
Get11 == Request(GET, Str(<<"/", "a">>), 49, <<>>)
Head11 == Request(HEAD, Str(<<"/">>), 49, <<>>)

\* requests parse_http_request answers HTTP 400: a path without leading
\* slash, a request line without version, a header name cut short by the end
\* of the head, a URL with an encoded NUL
MalformedRequests ==
    { Request(GET, Str(<<"x">>), 49, <<>>),
      GET \o Str(<<"/", "a", "b", "c", "d", "e", "f", "g", "h", "i">>) \o CRLF \o CRLF,
      Request(GET, Str(<<"/">>), 49, Str(<<"A", "u", "t", "h">>) \o CRLF),
      Request(GET, Str(<<"/", "%", "0", "0">>), 49, <<>>) }

\* the names of header lines
AcceptEncoding ==
    Str(<<"A", "c", "c", "e", "p", "t", "-", "E", "n", "c", "o", "d", "i", "n", "g">>)
ContentEncoding ==
    Str(<<"C", "o", "n", "t", "e", "n", "t", "-", "E", "n", "c", "o", "d", "i", "n", "g">>)
ContentType == Str(<<"C", "o", "n", "t", "e", "n", "t", "-", "T", "y", "p", "e">>)
AcceptType == Str(<<"A", "c", "c", "e", "p", "t", "-", "T", "y", "p", "e">>)
ContentLengthName ==
    Str(<<"C", "o", "n", "t", "e", "n", "t", "-", "L", "e", "n", "g", "t", "h">>)
AcceptLength == Str(<<"A", "c", "c", "e", "p", "t", "-", "L", "e", "n", "g", "t", "h">>)
DashLength == Str(<<"-", "L", "e", "n", "g", "t", "h">>)
HeaderNames ==
    { AcceptEncoding, ContentEncoding, ContentType, AcceptType, ContentLengthName,
      AcceptLength, DashLength, Str(<<"H", "o", "s", "t">>) }

\* a header line with the value "zz"
HeaderLine(name) == name \o Str(<<":", " ", "z", "z">>) \o CRLF

ConnectionValues ==
    { <<>>,
      Str(<<"k", "e", "e", "p", "-", "a", "l", "i", "v", "e">>),
      Str(<<"K", "e", "e", "p", "-", "A", "l", "i", "v", "e">>),
      Str(<<"c", "l", "o", "s", "e">>),
      Str(<<"C", "l", "o", "s", "e">>),
      Str(<<"u", "p", "g", "r", "a", "d", "e">>) }

ProxyV1 ==
    Str(<<"P", "R", "O", "X", "Y", " ", "T", "C", "P", "4", " ",
          "1", ".", "2", ".", "3", ".", "4", " ", "5", ".", "6", ".", "7", ".", "8", " ",
          "7", " ", "8", "CR", "LF">>)

ProxyV1Bad ==
    Str(<<"P", "R", "O", "X", "Y", " ", "T", "C", "P", "4", " ",
          "1", ".", "2", ".", "3", ".", "4", "CR", "LF">>)

\* v2 signature, PROXY command, TCP4, length 12, 9.9.9.9:7 -> 8.8.8.8:8
ProxyV2 ==
    <<13, 10, 13, 10, 0, 13, 10, 81, 85, 73, 84, 10, 33, 17, 0, 12,
      9, 9, 9, 9, 8, 8, 8, 8, 0, 7, 0, 8>>

\* a v1 line: "PROXY", protocol, two addresses and two ports around single spaces
V1Line(word, protocol, src_addr, dst_addr, src_port, dst_port) ==
    word \o <<32>> \o protocol \o <<32>> \o src_addr \o <<32>> \o dst_addr \o <<32>>
         \o src_port \o <<32>> \o dst_port \o CRLF

\* the 12-byte signature of a v2 header
V2Signature == <<13, 10, 13, 10, 0, 13, 10, 81, 85, 73, 84, 10>>

\* a v2 header: signature, command and version, family, big-endian length, payload
V2Header(sig, cmd_ver, fam, len, payload) ==
    sig \o <<cmd_ver, fam, len \div 256, len % 256>> \o payload

\* the payload of a v2 TCP4 and of a v2 TCP6 header
V2Tcp4Payload == <<9, 9, 9, 9, 8, 8, 8, 8, 0, 7, 0, 8>>
V2Tcp6Payload == [i \in 1..36 |-> IF i <= 16 THEN 1 ELSE IF i <= 32 THEN 2 ELSE i - 32]

\* preambles the reader accepts and rejects
Preambles ==
    LET PROXY == Str(<<"P", "R", "O", "X", "Y">>)
        TCP4 == Str(<<"T", "C", "P", "4">>)
        TCP6 == Str(<<"T", "C", "P", "6">>)
        a4 == Str(<<"1", ".", "2", ".", "3", ".", "4">>)
        a6 == Str(<<":", ":", "1">>)
        p7 == Str(<<"7">>)
    IN  { ProxyV1, ProxyV1Bad, ProxyV2,
          V1Line(PROXY, TCP6, a6, a6, p7, Str(<<"6", "5", "5", "3", "5">>)),
          V1Line(PROXY, TCP6, a6, a4, p7, p7),
          V1Line(PROXY, TCP4, a6, a4, p7, p7),
          V1Line(PROXY, TCP4, a4, Str(<<"2", "5", "6", ".", "1", ".", "1", ".", "1">>), p7, p7),
          V1Line(PROXY, TCP4, a4, a4, Str(<<"7", "x">>), p7),
          V1Line(PROXY, TCP4, a4, a4, p7, Str(<<"6", "5", "5", "3", "6">>)),
          V1Line(PROXY, TCP4, a4, a4, p7, <<>>),
          V1Line(PROXY, Str(<<"U", "D", "P", "4">>), a4, a4, p7, p7),
          V1Line(PROXY, Str(<<"T", "C", "P", "4", "x">>), a4, a4, p7, p7),
          V1Line(Str(<<"P", "R", "O", "X", "Z">>), TCP4, a4, a4, p7, p7),
          PROXY \o <<32>> \o TCP4 \o <<32>> \o a4 \o <<32, 13, 32>> \o a4 \o CRLF,
          V2Header(V2Signature, 32, 0, 0, <<>>),
          V2Header(V2Signature, 32, 17, 12, V2Tcp4Payload),
          V2Header(V2Signature, 33, 17, 0, <<>>),
          V2Header(V2Signature, 33, 17, 37, V2Tcp4Payload),
          V2Header(V2Signature, 33, 18, 12, V2Tcp4Payload),
          V2Header(V2Signature, 34, 17, 12, V2Tcp4Payload),
          V2Header(V2Signature, 17, 17, 12, V2Tcp4Payload),
          V2Header(V2Signature, 33, 17, 256, V2Tcp4Payload),
          V2Header(<<13, 10, 13, 10, 1, 2, 3, 4, 5, 6, 7, 8>>, 33, 17, 12, V2Tcp4Payload) }

\* "k=1" for n different keys k, in descending order, joined by sep
KeyChar(i) == IF i <= 26 THEN 64 + i ELSE 70 + i
ManyPairs(n, sep) ==
    [i \in 1..(4 * n - 1) |->
        CASE (i - 1) % 4 = 0 -> KeyChar(n - ((i - 1) \div 4))
          [] (i - 1) % 4 = 1 -> 61
          [] (i - 1) % 4 = 2 -> 49
          [] OTHER -> sep]

\* the texts of query strings and form bodies
QueryTexts ==
    { <<>>,
      Str(<<"a", "=", "1">>),
      Str(<<"b", "=", "1", "&", "a", "=", "2", "&", "c", "=", "3">>),
      Str(<<"a", "=", "1", "&", "a", "=", "2">>),
      Str(<<"f", "o", "o", "=", "1", "&", "f", "o", "o", "b", "a", "r", "=", "2">>),
      Str(<<"f", "o", "o", "b", "a", "r", "=", "2", "&", "f", "o", "o", "=", "1", "&",
            "f", "o", "=", "3">>),
      Str(<<"a", "=", "1", "&", "b">>),
      Str(<<"a", "=", "1", "&">>),
      Str(<<"b", "=", "1", "&", "a", "=", "2", "&", "%", "0", "0", "=", "3">>),
      Str(<<"a", "=", "1", "&", "b", "=", "%", "0", "0">>),
      Str(<<"a", "=", "1", "&", "b", "=">>),
      Str(<<"a", "=", "1", "&", "b", "=", "&", "c", "=", "3">>),
      Str(<<"&", "&", " ", "a", "=", "1", "&", "&", "b", "=", "2">>),
      Str(<<"c", "=", "d", "&", "a", "=", "%", "4", "1", "+", "b">>),
      Str(<<"b">>),
      Str(<<"%", "0", "0", "=", "1">>),
      ManyPairs(N_ELEMENTS - 1, 38),
      ManyPairs(N_ELEMENTS, 38),
      ManyPairs(MaxPairs, 38) }

\* the texts of Cookie headers
CookieTexts ==
    { Str(<<"b", "=", "2", ";", " ", "a", "=", "1">>),
      Str(<<"b", "=", "2", ";", " ", "a", "=", "1", ";">>),
      Str(<<"a", "=", "1", ";", " ", "b">>),
      Str(<<"b", "=", ";", " ", "a", "=", "1">>),
      ManyPairs(N_ELEMENTS, 59) }

\* the key-value lists that are parsed: a query string, a Cookie header, or a
\* POST body with its Content-Type; allocated tells whether coro_malloc succeeds
KvInputs ==
    { [text |-> t, kind |-> "query_string", content_type |-> <<>>, allocated |-> TRUE] :
        t \in QueryTexts }
    \cup
    { [text |-> t, kind |-> "cookie", content_type |-> <<>>, allocated |-> TRUE] :
        t \in CookieTexts }
    \cup
    { [text |-> t, kind |-> "post_data", content_type |-> ct, allocated |-> TRUE] :
        t \in {Str(<<"b", "=", "1", "&", "a", "=", "2">>), Str(<<"a", "=", "1", "&">>)},
        ct \in {FormContentType, Str(<<"t", "e", "x", "t", "/", "p", "l", "a", "i", "n">>)} }
    \cup
    { [text |-> Str(<<"a", "=", "1">>), kind |-> "query_string", content_type |-> <<>>,
       allocated |-> FALSE] }

\* the keys handlers look up
LookupKeys ==
    { <<>>, Str(<<"a">>), Str(<<"b">>), Str(<<"c">>), Str(<<"f", "o">>), Str(<<"f", "o", "o">>),
      Str(<<"f", "o", "o", "b", "a", "r">>), Str(<<"f", "o", "x">>), Str(<<"z">>),
      Str(<<"A">>), Str(<<"g">>) }

\* a Content-Length header as the client wrote it: its text, what kind of
\* text that is ("decimal", "negative", "unparseable"), and the number meant
ContentLength(text, class, value) ==
    [present |-> TRUE, text |-> text, class |-> class, value |-> value]
NoContentLength == [present |-> FALSE, text |-> <<>>, class |-> "none", value |-> 0]

\* the Content-Length headers of the POST requests that are not followed by
\* exactly that many bytes
ContentLengths ==
    { ContentLength(Str(<<"5">>), "decimal", 5),
      ContentLength(Str(<<"1">>), "decimal", 1),
      ContentLength(Str(<<"0">>), "decimal", 0),
      ContentLength(Str(<<"9", "9">>), "decimal", 99),
      ContentLength(Str(<<"-", "1">>), "negative", 0 - 1),
      ContentLength(Str(<<"x">>), "unparseable", 0),
      NoContentLength }

\* the head of a POST with the given Content-Length header, or without one
PostHead(cl) ==
    RequestLine(POST, Str(<<"/">>), 49)
        \o (IF cl.present THEN ContentLengthHeader(cl.text) ELSE <<>>) \o CRLF

\* One connection: the bytes the client sends (a first request, then the
\* rest), the positions at which a read() may return short, the byte the
\* uninitialized buffer holds, and whether the connection accepts the PROXY
\* preamble.  kind names what the bytes are made of.
Scenario(first, rest, cuts, kind) ==
    [bytes |-> first \o rest, cuts |-> cuts, kind |-> kind, len1 |-> Len(first),
     fill |-> 0, allow_proxy |-> FALSE, preamble |-> 0, cl |-> NoContentLength]

\* reads that end 0..3 bytes after the first request
Around(first) == {Len(first) + k : k \in 0..3}

Scenarios ==
    \* two pipelined requests without body
    { Scenario(Get10, Get11, {3} \cup Around(Get10), "two_bodyless"),
      Scenario(Head11, Get10, {Len(Head11)}, "two_bodyless"),
      Scenario(Request(GET, Str(<<"/">>), 49, ConnectionHeader(Str(<<"c">>))), Get10,
               {}, "two_bodyless"),
      Scenario(Get10, PadGet(DEFAULT_BUFFER_SIZE - 37), {}, "two_bodyless"),
      Scenario(Get10, PadGet(DEFAULT_BUFFER_SIZE - 36), {}, "two_bodyless") }
    \cup
    \* a POST with its body and a request of which a first read returns 8 bytes
    { Scenario(PostRequest(3), Get10, {Len(PostRequest(3)) + 8}, "partial_tail") }
    \cup
    \* a POST of which three of five body bytes arrive first, then a request in pieces
    { Scenario(PostRequest(5), Get10, {Len(PostRequest(5)) - 2, Len(PostRequest(5)) + 2},
               "partial_tail") }
    \cup
    \* a request with one header line, alone and before another request
    { Scenario(Request(GET, Str(<<"/">>), 49, HeaderLine(name)), rest, {}, "header") :
        name \in HeaderNames, rest \in {<<>>, Get10} }
    \cup
    \* two pipelined requests, one of them a POST with its body
    { Scenario(PostRequest(3), Get10, {Len(PostRequest(3))}, "two_with_post"),
      Scenario(Get10, PostRequest(3), {Len(Get10)}, "two_with_post") }
    \cup
    \* one request, every Connection header and HTTP version
    { Scenario(Request(GET, Str(<<"/">>), minor, <<>>), <<>>, {}, "single") :
        minor \in {48, 49} }
    \cup
    { Scenario(Request(GET, Str(<<"/">>), minor, ConnectionHeader(v)), <<>>, {}, "single") :
        minor \in {48, 49}, v \in ConnectionValues }
    \cup
    \* one POST followed by exactly Content-Length body bytes
    { Scenario(PostRequest(n), <<>>, {Len(PostRequest(0))}, "post_exact") :
        n \in {0, 1, 2, 3, 5} }
    \cup
    { [Scenario(PostRequest(3), <<>>, {Len(PostRequest(0))}, "post_exact")
          EXCEPT !.fill = 10] }
    \cup
    \* one POST head followed by three bytes, of which 0..3 arrive with the head
    { [Scenario(PostHead(cl), Str(<<"a", "a", "a">>), Around(PostHead(cl)), "post_error")
          EXCEPT !.cl = cl] : cl \in ContentLengths }
    \cup
    \* a request followed by an empty line, then another request
    { Scenario(Get10, CRLF \o Get11, {Len(Get10), Len(Get10) + 2}, "other") }
    \cup
    \* rejected requests
    { Scenario(Get11, Request(GET, Str(<<"x">>), 49, <<>>), {}, "other"),
      Scenario(Request(GET, Str(<<"/", "%", "0", "0">>), 49, <<>>), <<>>, {}, "other"),
      Scenario(Request(PUT, Str(<<"/">>), 49, <<>>), <<>>, {}, "other"),
      Scenario(PadGet(DEFAULT_BUFFER_SIZE), <<>>, {}, "other") }
    \cup
    \* a malformed request line, header block or URL, alone and before a request
    { Scenario(bad, rest, {}, "malformed") :
        bad \in MalformedRequests, rest \in {<<>>, Get10} }
    \cup
    \* whitespace before the method, an unknown method, nothing but whitespace
    { Scenario(Str(<<" ", "TAB">>) \o CRLF \o Get10, <<>>, {}, "method"),
      Scenario(CRLF \o Request(PUT, Str(<<"/">>), 49, <<>>), <<>>, {}, "method"),
      Scenario(CRLF \o Head11, <<>>, {}, "method"),
      Scenario(CRLF \o CRLF, <<>>, {}, "method"),
      Scenario(Str(<<" ", " ">>) \o CRLF \o CRLF, <<>>, {}, "method") }
    \cup
    { [Scenario(ProxyV1 \o Request(PUT, Str(<<"/">>), 49, <<>>), <<>>, {}, "method")
          EXCEPT !.allow_proxy = TRUE, !.preamble = Len(ProxyV1)] }
    \cup
    \* PROXY preambles, on connections that accept them and on connections that do not
    { [Scenario(pre \o Get10, <<>>, {}, "proxy")
          EXCEPT !.allow_proxy = a, !.preamble = Len(pre)] :
        pre \in Preambles, a \in BOOLEAN }
    \cup
    \* a v2 TCP6 header, the longest the reader accepts, before an empty request
    { [Scenario(V2Header(V2Signature, 33, 33, 36, V2Tcp6Payload) \o CRLF \o CRLF,
                <<>>, {}, "proxy")
          EXCEPT !.allow_proxy = TRUE, !.preamble = V2_SIZE] }
    \cup
    { [Scenario(Get10, Get11, {}, "two_bodyless") EXCEPT !.allow_proxy = TRUE] }

\* the url_maps the prefix trie holds; every prefix is "/"
UrlMap(flags) == [flags |-> flags, prefix_len |-> 1]
NoUrlMap == [flags |-> {}, prefix_len |-> 0]
UrlMaps ==
    { UrlMap({}),
      UrlMap({"HANDLER_MUST_AUTHORIZE"}),
      UrlMap({"HANDLER_PARSE_POST_DATA"}),
      UrlMap({"HANDLER_PARSE_POST_DATA", "HANDLER_MUST_AUTHORIZE", "HANDLER_CAN_REWRITE_URL"}),
      UrlMap({"HANDLER_CAN_REWRITE_URL", "HANDLER_REMOVE_LEADING_SLASH"}) }

\* the statuses a handler returns
HandlerStatuses == {HTTP_OK, HTTP_NOT_FOUND}

(***************************************************************************)
(* The connection's coroutine: lwan_process_request, called MaxCalls times *)
(* with the previous call's return value.                                  *)
(***************************************************************************)
VARIABLES
    sc,                \* the scenario: what the client sends
    sent,              \* how many of its bytes read() has returned
    buf,               \* the request buffer's bytes
    buffer_len,        \* buffer->len
    next_request,      \* the pointer lwan_process_request returned
    request,           \* request->flags, url, original_url
    helper,            \* struct request_parser_helper
    conn_flags,        \* request->conn->flags
    proxy,             \* *request->proxy
    pc,                \* where the coroutine is
    total_read,        \* read_from_request_socket's total_read
    packets_remaining, \* read_from_request_socket's packets_remaining
    url_map,           \* the url_map of the last lookup
    calls,             \* lwan_process_request calls started
    obs,               \* what this call did so far
    kv                 \* a key-value list: its text, the parsed array, a lookup

vars == <<sc, sent, buf, buffer_len, next_request, request, helper, conn_flags, proxy,
          pc, total_read, packets_remaining, url_map, calls, obs, kv>>

\* what a call did so far; stage is where parse_http_request returned
NoObs ==
    [ reads |-> 0, yields |-> 0, read_count |-> 1, did_read |-> FALSE, read_result |-> "none",
      responses |-> <<>>, lookups |-> 0, auth_calls |-> 0, auth_called |-> FALSE, auth_ok |-> FALSE,
      handler_calls |-> 0, proxy_calls |-> 0, preamble_end |-> 0, stage |-> "none",
      status |-> 0, framing |-> 0,
      entry_flags |-> {}, entry_len |-> 0, entry_tail |-> 0, head |-> <<>>,
      start_read |-> 0, start_bytes |-> <<>> ]

\* the connection's loop around lwan_process_request: the first request of a
\* connection that accepts the PROXY preamble carries REQUEST_ALLOW_PROXY_REQS,
\* later ones inherit REQUEST_PROXIED
NewRequest(first, allow_proxy, flags) ==
    [ flags |-> IF first
                THEN IF allow_proxy THEN {"REQUEST_ALLOW_PROXY_REQS"} ELSE {}
                ELSE flags \cap {"REQUEST_PROXIED"},
      url |-> NoSlice, original_url |-> NoSlice ]

\* a key-value list before it is parsed: the text with its NUL, the slice
\* that holds it, and the array of the request
KvStart(in) ==
    [ pc |-> "idle", buf |-> in.text \o <<0>>, slice |-> Slice(1, Len(in.text)),
      kind |-> in.kind, content_type |-> in.content_type, allocated |-> in.allocated,
      ptr |-> NULL, decoder |-> "none", separator |-> 0,
      array |-> NoArray, collected |-> <<>>, writes |-> {}, returned |-> FALSE,
      key |-> <<>>, found |-> NULL ]

\* no key-value list
KvIdle == KvStart([text |-> <<>>, kind |-> "none", content_type |-> <<>>, allocated |-> TRUE])

Init ==
    /\ sc \in Scenarios
    /\ kv = KvIdle
    /\ sent = 0
    /\ buf = [i \in 1..DEFAULT_BUFFER_SIZE |-> sc.fill]
    /\ buffer_len = 0
    /\ next_request = NULL
    /\ request = NewRequest(TRUE, sc.allow_proxy, {})
    /\ helper = NewHelper(NULL)
    /\ conn_flags = {}
    /\ proxy = NoProxy
    /\ pc = "idle"
    /\ total_read = 0
    /\ packets_remaining = 0
    /\ url_map = NoUrlMap
    /\ calls = 0
    /\ obs = NoObs

\* a driver that surfaces every failure of read_request
bad_request_with_tail_never(status, tail) == FALSE

\* lwan_process_request: if (status == HTTP_BAD_REQUEST && helper.next_request)
bad_request_with_tail(status, tail) == status = HTTP_BAD_REQUEST /\ tail # NULL

\* lwan_process_request after read_request returned a status other than
\* HTTP_OK; framing records what read_request returned
ReaderFailed(status, h, o) ==
    IF bad_request_with_tail(status, h.next_request)
    THEN /\ pc' = "returned"
         /\ next_request' = h.next_request
         /\ obs' = [o EXCEPT !.status = status, !.framing = status]
    ELSE /\ pc' = "aborted"
         /\ next_request' = next_request
         /\ obs' = [o EXCEPT !.status = status, !.framing = status,
                             !.responses = Append(@, status)]

\* a loop that runs one more iteration
packets_left_one_more(remaining) == remaining >= 0

\* read_from_request_socket: the loop's test, packets_remaining > 0
packets_left(remaining) == remaining > 0

\* read_from_request_socket at "continue": the loop's decrement and test,
\* and the return of HTTP_TIMEOUT when the budget is used up
Continue(h, pr, o) ==
    /\ packets_remaining' = pr - 1
    /\ conn_flags' = conn_flags
    /\ IF packets_left(pr - 1)
       THEN /\ pc' = "read"
            /\ next_request' = next_request
            /\ obs' = o
       ELSE ReaderFailed(HTTP_TIMEOUT, h, o)

\* a yield that leaves the connection's flags alone
YieldWithoutMustRead(pr, o) ==
    /\ conn_flags' = conn_flags
    /\ pc' = "yielded"
    /\ packets_remaining' = pr
    /\ next_request' = next_request
    /\ obs' = [o EXCEPT !.yields = @ + 1]

\* read_from_request_socket at yield_and_read_again
YieldAndReadAgain(pr, o) ==
    /\ conn_flags' = conn_flags \cup {"CONN_MUST_READ"}
    /\ pc' = "yielded"
    /\ packets_remaining' = pr
    /\ next_request' = next_request
    /\ obs' = [o EXCEPT !.yields = @ + 1]

\* read_from_request_socket at try_to_finalize, with the buffer b holding tr bytes
TryToFinalize(b, tr, h, pr, o) ==
    LET finalized(f) ==
            /\ total_read' = tr
            /\ buffer_len' = tr
            /\ helper' = f.helper
            /\ CASE f.verdict = "FINALIZER_DONE" ->
                      /\ buf' = Put(b, tr + 1, 0)
                      /\ conn_flags' = conn_flags \ {"CONN_MUST_READ"}
                      /\ pc' = "parse"
                      /\ packets_remaining' = pr
                      /\ next_request' = next_request
                      /\ obs' = [o EXCEPT !.status = HTTP_OK, !.framing = HTTP_OK]
                 [] f.verdict = "FINALIZER_TRY_AGAIN" ->
                      /\ buf' = b
                      /\ Continue(f.helper, pr, o)
                 [] f.verdict = "FINALIZER_YIELD_TRY_AGAIN" ->
                      /\ buf' = b
                      /\ YieldAndReadAgain(pr, o)
                 [] f.verdict = "FINALIZER_ERROR_TOO_LARGE" ->
                      /\ buf' = b
                      /\ conn_flags' = conn_flags
                      /\ packets_remaining' = pr
                      /\ ReaderFailed(HTTP_TOO_LARGE, f.helper, o)
    IN  finalized(read_request_finalizer(tr, DEFAULT_BUFFER_SIZE, h, b))

\* lwan_process_request is called: the helper is set up and read_request runs
\* up to its first read().  A next_request beyond the buffered bytes makes
\* buffer->len wrap and memmove run off the buffer.
ProcessRequest ==
    /\ pc \in {"idle", "returned"}
    /\ calls < MaxCalls
    /\ calls' = calls + 1
    /\ url_map' = NoUrlMap
    /\ UNCHANGED <<kv, sc, sent, proxy>>
    /\ LET entered(r, h, len) ==
               /\ request' = r
               /\ IF next_request # NULL
                  THEN IF len < 0
                       THEN /\ pc' = "crashed"
                            /\ obs' = [NoObs EXCEPT !.entry_flags = r.flags,
                                                    !.entry_len = buffer_len, !.entry_tail = next_request]
                            /\ helper' = h
                            /\ total_read' = 0
                            /\ packets_remaining' = PACKETS
                            /\ UNCHANGED <<buf, buffer_len, next_request, conn_flags>>
                       ELSE LET moved(b) ==
                                    TryToFinalize(b, len, h, PACKETS,
                                        [NoObs EXCEPT !.entry_flags = r.flags,
                                                      !.entry_len = buffer_len, !.entry_tail = next_request,
                                                      !.start_read = len,
                                                      !.start_bytes = SubSeq(b, 1, len)])
                            IN  moved(memmove(buf, 1, next_request, len))
                  ELSE /\ pc' = "read"
                       /\ total_read' = 0
                       /\ packets_remaining' = PACKETS
                       /\ helper' = h
                       /\ obs' = [NoObs EXCEPT !.entry_flags = r.flags,
                                               !.entry_len = buffer_len, !.entry_tail = next_request]
                       /\ UNCHANGED <<buf, buffer_len, next_request, conn_flags>>
       IN  entered(NewRequest(calls = 0, sc.allow_proxy, request.flags),
                   NewHelper(next_request),
                   buffer_len - (next_request - 1))

\* the byte counts a read() of at most count bytes may return
ReadSizes(count) ==
    LET avail == Len(sc.bytes) - sent
        ends == {c \in sc.cuts \cup {Len(sc.bytes)} : c > sent /\ c - sent <= count}
    IN  IF avail = 0 \/ count <= 0 THEN {}
        ELSE IF ends = {} THEN {Min2(count, avail)}
        ELSE {c - sent : c \in ends}

\* obs after one more read(fd, buffer->value + total_read, buffer_size - total_read)
AfterRead(result) == [obs EXCEPT !.reads = @ + 1, !.did_read = TRUE, !.read_result = result,
                                 !.read_count = DEFAULT_BUFFER_SIZE - total_read]

\* read() returns n > 0 bytes
ReadData ==
    /\ pc = "read"
    /\ \E n \in ReadSizes(DEFAULT_BUFFER_SIZE - total_read) :
          /\ sent' = sent + n
          /\ TryToFinalize([i \in 1..Len(buf) |->
                               IF i > total_read /\ i <= total_read + n
                               THEN sc.bytes[sent + (i - total_read)] ELSE buf[i]],
                           total_read + n, helper, packets_remaining, AfterRead("data"))
    /\ UNCHANGED <<kv, sc, request, proxy, url_map, calls>>

\* read() returns 0: the client has shut down
ReadShutdown ==
    /\ pc = "read"
    /\ pc' = "aborted"
    /\ obs' = AfterRead("shutdown")
    /\ UNCHANGED <<kv, sc, sent, buf, buffer_len, next_request, request, helper, conn_flags,
                   proxy, total_read, packets_remaining, url_map, calls>>

\* read() fails with EAGAIN or EINTR
ReadAgain ==
    /\ pc = "read"
    /\ YieldAndReadAgain(packets_remaining, AfterRead("again"))
    /\ UNCHANGED <<kv, sc, sent, buf, buffer_len, request, helper, proxy, total_read,
                   url_map, calls>>

\* a reader that answers every unexpected error
nothing_read_always(tr) == TRUE

\* read_from_request_socket: if (!total_read)
nothing_read(tr) == tr = 0

\* read() fails with another errno
ReadError ==
    /\ pc = "read"
    /\ IF nothing_read(total_read)
       THEN ReaderFailed(HTTP_BAD_REQUEST, helper, AfterRead("error"))
       ELSE /\ pc' = "aborted"
            /\ obs' = AfterRead("error")
            /\ next_request' = next_request
    /\ UNCHANGED <<kv, sc, sent, buf, buffer_len, request, helper, conn_flags, proxy,
                   total_read, packets_remaining, url_map, calls>>

\* the coroutine is resumed after a CONN_CORO_MAY_RESUME yield
Resume ==
    /\ pc = "yielded"
    /\ Continue(helper, packets_remaining, obs)
    /\ UNCHANGED <<kv, sc, sent, buf, buffer_len, request, helper, proxy, total_read,
                   url_map, calls>>

\* the request, its helper and the buffer as the parser's functions see them
Machine ==
    [ buf |-> buf, len |-> buffer_len, flags |-> request.flags, url |-> request.url,
      original_url |-> request.original_url, helper |-> helper, conn_flags |-> conn_flags,
      proxy |-> proxy, proxy_calls |-> 0, preamble_end |-> NULL, ret |-> 0,
      stage |-> "none" ]

\* a driver that aborts the coroutine after a response when no tail is left
returns_to_caller_with_tail(tail) == tail # NULL

\* lwan_process_request at "out": every response is followed by the return
returns_to_caller(tail) == TRUE

\* a driver that goes to "out" without the response
RespondSilently(status, h, o) ==
    /\ pc' = "returned"
    /\ next_request' = h.next_request
    /\ obs' = o

\* lwan_process_request at "out" after a response with the given status
Respond(status, h, o) ==
    /\ pc' = IF returns_to_caller(h.next_request) THEN "returned" ELSE "aborted"
    /\ next_request' = h.next_request
    /\ obs' = [o EXCEPT !.responses = Append(@, status)]

\* lwan_process_request: parse_http_request and the test of its status
ParseRequest ==
    /\ pc = "parse"
    /\ LET parsed(m, o) ==
               /\ buf' = m.buf
               /\ request' = [flags |-> m.flags, url |-> m.url,
                              original_url |-> m.original_url]
               /\ helper' = m.helper
               /\ conn_flags' = m.conn_flags
               /\ proxy' = m.proxy
               /\ IF m.ret # HTTP_OK
                  THEN Respond(m.ret, m.helper,
                               [o EXCEPT !.proxy_calls = m.proxy_calls, !.stage = m.stage,
                                         !.preamble_end = m.preamble_end,
                                         !.status = m.ret])
                  ELSE /\ pc' = "lookup"
                       /\ next_request' = next_request
                       /\ obs' = [o EXCEPT !.proxy_calls = m.proxy_calls, !.stage = m.stage,
                                           !.preamble_end = m.preamble_end,
                                           !.status = m.ret]
       IN  parsed(parse_http_request(Machine),
                  [obs EXCEPT !.reads = 0, !.yields = 0, !.read_count = 1,
                              !.head = SubSeq(buf, 1, buffer_len)])
    /\ total_read' = 0
    /\ packets_remaining' = 0
    /\ UNCHANGED <<kv, sc, sent, buffer_len, url_map, calls>>

\* lookup_again: lwan_trie_lookup_prefix finds a url_map
LookupFound ==
    /\ pc = "lookup"
    /\ \E map \in UrlMaps : url_map' = map
    /\ pc' = "prepare"
    /\ obs' = [obs EXCEPT !.lookups = @ + 1, !.auth_called = FALSE, !.auth_ok = FALSE]
    /\ UNCHANGED <<kv, sc, sent, buf, buffer_len, next_request, request, helper, conn_flags,
                   proxy, total_read, packets_remaining, calls>>

\* lookup_again: lwan_trie_lookup_prefix returns NULL
LookupNull ==
    /\ pc = "lookup"
    /\ url_map' = NoUrlMap
    /\ Respond(HTTP_NOT_FOUND, helper, [obs EXCEPT !.lookups = @ + 1, !.auth_called = FALSE, !.auth_ok = FALSE])
    /\ UNCHANGED <<kv, sc, sent, buf, buffer_len, request, helper, conn_flags,
                   proxy, total_read, packets_remaining, calls>>

\* lwan_process_request: prepare_for_response and the test of its status
PrepareForResponse ==
    /\ pc = "prepare"
    /\ \E authorized \in BOOLEAN :
          LET prepared(r) ==
                  /\ request' = [request EXCEPT !.url = r.url]
                  /\ IF r.status # HTTP_OK
                     THEN Respond(r.status, helper,
                                  [obs EXCEPT !.auth_calls = IF r.auth_called THEN @ + 1 ELSE @,
                                              !.auth_called = r.auth_called,
                                              !.auth_ok = r.auth_called /\ authorized])
                     ELSE /\ pc' = "handler"
                          /\ next_request' = next_request
                          /\ obs' = [obs EXCEPT !.auth_calls = IF r.auth_called THEN @ + 1 ELSE @,
                                                !.auth_called = r.auth_called,
                                                !.auth_ok = r.auth_called /\ authorized]
          IN  prepared(prepare_for_response(url_map, request.flags, request.url, buf,
                                            authorized))
    /\ UNCHANGED <<kv, sc, sent, buf, buffer_len, helper, conn_flags, proxy, total_read,
                   packets_remaining, url_map, calls>>

\* lwan_process_request: the handler runs; it may set RESPONSE_URL_REWRITTEN
\* and put another URL in request->url, and then handle_rewrite decides
CallHandler ==
    /\ pc = "handler"
    /\ \E status \in HandlerStatuses, rewritten \in BOOLEAN :
          LET rewrite_handled(m, o) ==
                  /\ buf' = m.buf
                  /\ request' = [flags |-> m.flags, url |-> m.url,
                                 original_url |-> m.original_url]
                  /\ helper' = m.helper
                  /\ IF m.ret
                     THEN /\ pc' = "lookup"
                          /\ next_request' = next_request
                          /\ obs' = o
                     ELSE Respond(HTTP_INTERNAL_ERROR, m.helper, o)
              handler_returned(m0, o) ==
                  IF /\ "HANDLER_CAN_REWRITE_URL" \in url_map.flags
                     /\ "RESPONSE_URL_REWRITTEN" \in m0.flags
                  THEN rewrite_handled(handle_rewrite(m0), o)
                  ELSE /\ buf' = buf
                       /\ request' = [flags |-> m0.flags, url |-> m0.url,
                                      original_url |-> m0.original_url]
                       /\ helper' = helper
                       /\ Respond(status, helper, o)
          IN  handler_returned(
                  IF rewritten
                  THEN [Machine EXCEPT !.flags = @ \cup {"RESPONSE_URL_REWRITTEN"},
                                       !.url = request.original_url]
                  ELSE Machine,
                  [obs EXCEPT !.handler_calls = @ + 1])
    /\ UNCHANGED <<kv, sc, sent, buffer_len, conn_flags, proxy, total_read,
                   packets_remaining, url_map, calls>>

Next ==
    \/ ProcessRequest
    \/ ReadData
    \/ ReadShutdown
    \/ ReadAgain
    \/ ReadError
    \/ Resume
    \/ ParseRequest
    \/ LookupFound
    \/ LookupNull
    \/ PrepareForResponse
    \/ CallHandler

Spec == Init /\ [][Next]_vars

\* read() returns, with data, end of stream or an error
ReadReturns == ReadData \/ ReadShutdown \/ ReadAgain \/ ReadError

\* every read() returns and every CONN_CORO_MAY_RESUME yield is resumed
FairSpec == Spec /\ WF_vars(ReadReturns) /\ WF_vars(Resume)

(***************************************************************************)
(* Key-value lists: prepare_for_response parses one, handlers look keys up.*)
(***************************************************************************)
KvInit ==
    /\ kv \in {KvStart(in) : in \in KvInputs}
    /\ sc = Scenario(Get10, <<>>, {}, "single")
    /\ sent = 0
    /\ buf = [i \in 1..DEFAULT_BUFFER_SIZE |-> 0]
    /\ buffer_len = 0
    /\ next_request = NULL
    /\ request = NewRequest(TRUE, FALSE, {})
    /\ helper = NewHelper(NULL)
    /\ conn_flags = {}
    /\ proxy = NoProxy
    /\ pc = "idle"
    /\ total_read = 0
    /\ packets_remaining = 0
    /\ url_map = NoUrlMap
    /\ calls = 0
    /\ obs = NoObs

\* prepare_for_response: parse_query_string, up to the loop of parse_key_values
ParseQueryString ==
    /\ kv.pc = "idle"
    /\ kv.kind = "query_string"
    /\ kv' = parse_query_string(kv)
    /\ UNCHANGED <<sc, sent, buf, buffer_len, next_request, request, helper, conn_flags,
                   proxy, pc, total_read, packets_remaining, url_map, calls, obs>>

\* prepare_for_response: parse_cookies, up to the loop of parse_key_values
ParseCookies ==
    /\ kv.pc = "idle"
    /\ kv.kind = "cookie"
    /\ kv' = parse_cookies(kv)
    /\ UNCHANGED <<sc, sent, buf, buffer_len, next_request, request, helper, conn_flags,
                   proxy, pc, total_read, packets_remaining, url_map, calls, obs>>

\* prepare_for_response: parse_post_data, up to the loop of parse_key_values
ParsePostData ==
    /\ kv.pc = "idle"
    /\ kv.kind = "post_data"
    /\ kv' = parse_post_data(kv)
    /\ UNCHANGED <<sc, sent, buf, buffer_len, next_request, request, helper, conn_flags,
                   proxy, pc, total_read, packets_remaining, url_map, calls, obs>>

\* parse_key_values: one pass through the do-while loop; the pass that leaves
\* the loop by its test also writes the sentinel, sorts and stores the array
ParseKeyValuesLoop ==
    /\ kv.pc = "loop"
    /\ LET passed(st) ==
               CASE st.state = "loop" ->
                      kv' = [kv EXCEPT !.buf = st.buf, !.ptr = st.ptr, !.collected = st.kvs,
                                       !.writes = @ \cup {Len(st.kvs) - 1}]
                 [] st.state = "returned" ->
                      kv' = [kv EXCEPT !.pc = "parsed", !.buf = st.buf, !.returned = TRUE]
                 [] st.state = "done" ->
                      \E sorted \in qsort(st.buf, st.kvs, Len(st.kvs)) :
                         kv' = [kv EXCEPT !.pc = "parsed", !.buf = st.buf,
                                          !.collected = st.kvs,
                                          !.writes = @ \cup {Len(st.kvs) - 1, Len(st.kvs)},
                                          !.array = [base |-> sorted, len |-> Len(st.kvs)]]
       IN  passed(parse_key_values_iteration(
                      [buf |-> kv.buf, ptr |-> kv.ptr, kvs |-> kv.collected, state |-> "loop"],
                      kv.decoder, kv.separator))
    /\ UNCHANGED <<sc, sent, buf, buffer_len, next_request, request, helper, conn_flags,
                   proxy, pc, total_read, packets_remaining, url_map, calls, obs>>

\* a handler calls lwan_request_get_query_param, lwan_request_get_post_param
\* or lwan_request_get_cookie
GetParam ==
    /\ kv.pc \in {"parsed", "looked_up"}
    /\ \E key \in LookupKeys :
          kv' = [kv EXCEPT !.pc = "looked_up", !.key = key,
                           !.found = value_array_bsearch(kv.buf, kv.array, key)]
    /\ UNCHANGED <<sc, sent, buf, buffer_len, next_request, request, helper, conn_flags,
                   proxy, pc, total_read, packets_remaining, url_map, calls, obs>>

KvNext ==
    \/ ParseQueryString
    \/ ParseCookies
    \/ ParsePostData
    \/ ParseKeyValuesLoop
    \/ GetParam

KvSpec == KvInit /\ [][KvNext]_vars

(***************************************************************************)
(* Properties.                                                             *)
(***************************************************************************)
\* the call got a framed request and parse_http_request accepted it
CallSucceeds ==
    \/ pc \in {"parse", "lookup", "prepare", "handler"}
    \/ pc = "returned" /\ obs.status = HTTP_OK /\ obs.stage \in {"done", "post_data"}

\* the buffer of the first call, or the buffer the second call was entered
\* with, holds both requests of a two-request scenario
TwoRequestsInBuffer ==
    /\ sc.kind \in {"two_bodyless", "two_with_post"}
    /\ Len(sc.bytes) <= DEFAULT_BUFFER_SIZE
    /\ \/ calls = 1 /\ buffer_len = Len(sc.bytes)
       \/ calls = 2 /\ obs.entry_len = Len(sc.bytes)

\* both calls succeed, the second without a read() and on the second request
PipelinedCallsSucceed ==
    /\ CallSucceeds
    /\ calls = 2 => ~obs.did_read
    /\ calls = 2 /\ pc # "parse" => obs.head = SubSeq(sc.bytes, sc.len1 + 1, Len(sc.bytes))

C2_NoByteLostAsStated ==
    calls = 2 /\ obs.entry_len >= sc.len1 /\ sc.kind # "two_with_post"
        => obs.start_bytes = SubSeq(sc.bytes, sc.len1 + 1, obs.entry_len)

\* C3: within one lwan_process_request call the handler runs at most
\* MAX_REWRITES + 1 times; the rewrite that takes urls_rewritten past
\* MAX_REWRITES is answered with HTTP 500 and the call returns without another
\* lookup or handler invocation.
C3_RewriteBound ==
    /\ obs.handler_calls <= MAX_REWRITES + 1
    /\ obs.lookups <= MAX_REWRITES + 1
    /\ helper.urls_rewritten <= MAX_REWRITES + 1
    /\ helper.urls_rewritten < obs.lookups \/ helper.urls_rewritten = obs.handler_calls
    /\ helper.urls_rewritten = MAX_REWRITES + 1 =>
          /\ pc = "returned"
          /\ obs.responses = <<HTTP_INTERNAL_ERROR>>
          /\ obs.handler_calls = MAX_REWRITES + 1
          /\ obs.lookups = MAX_REWRITES + 1
    /\ HTTP_INTERNAL_ERROR \in {obs.responses[i] : i \in 1..Len(obs.responses)} =>
          helper.urls_rewritten = MAX_REWRITES + 1

\* the fifth rewrite of a call was answered with HTTP 500
C3_Witness ==
    /\ helper.urls_rewritten = MAX_REWRITES + 1
    /\ obs.handler_calls = MAX_REWRITES + 1
    /\ obs.responses = <<HTTP_INTERNAL_ERROR>>
    /\ pc = "returned"

\* the request buffer at parse time starts with "PROXY "
HeadIsProxyLine ==
    /\ Len(obs.head) >= 6
    /\ SubSeq(obs.head, 1, 6) = Str(<<"P", "R", "O", "X", "Y", " ">>)

\* C4: in a call whose request lacks REQUEST_ALLOW_PROXY_REQS the PROXY
\* reader is not invoked, REQUEST_PROXIED is not set by the call, and a buffer
\* starting with "PROXY " is answered with 400 or 405; on a connection that
\* never allows the preamble lwan_request_get_remote_address reports the
\* socket's peer.
C4_ProxyAbsence ==
    /\ calls > 0 /\ "REQUEST_ALLOW_PROXY_REQS" \notin obs.entry_flags =>
          /\ obs.proxy_calls = 0
          /\ "REQUEST_PROXIED" \in request.flags => "REQUEST_PROXIED" \in obs.entry_flags
          /\ HeadIsProxyLine =>
                /\ obs.status \in {HTTP_BAD_REQUEST, HTTP_NOT_ALLOWED}
                /\ obs.responses = <<obs.status>>
                /\ pc = "returned"
    /\ ~sc.allow_proxy =>
          /\ "REQUEST_PROXIED" \notin request.flags
          /\ proxy = NoProxy
          /\ lwan_request_get_remote_address(request.flags, proxy, "peer") = "peer"

\* a PROXY line on a connection that does not allow it was answered with 405
C4_Witness ==
    /\ ~sc.allow_proxy
    /\ HeadIsProxyLine
    /\ obs.proxy_calls = 0
    /\ obs.responses = <<HTTP_NOT_ALLOWED>>
    /\ pc = "returned"

\* C5: a run of the socket reader performs at most PACKETS read() calls and
\* at most PACKETS resumable yields, each iteration taking one of the PACKETS
\* slots; when the slots are used up it returns HTTP 408; and, every yield
\* being resumed, the reader always ends, by returning or aborting.
C5_ReadBudget ==
    /\ [](/\ obs.reads <= PACKETS
          /\ obs.yields <= PACKETS
          /\ pc \in {"read", "yielded"} =>
                /\ packets_remaining \in 1..PACKETS
                /\ obs.reads <= PACKETS - packets_remaining + 1
                /\ obs.yields <= PACKETS - packets_remaining + 1
          /\ calls > 0 /\ obs.stage = "none" /\ packets_remaining = 0 =>
                /\ pc = "aborted"
                /\ obs.status = HTTP_TIMEOUT
                /\ obs.responses = <<HTTP_TIMEOUT>>
          /\ obs.status = HTTP_TIMEOUT => packets_remaining = 0 /\ pc = "aborted")
    /\ (pc \in {"read", "yielded"} ~> pc \notin {"read", "yielded"})

\* the reader used all its slots, yielding PACKETS times, and returned 408
C5_Witness ==
    /\ obs.yields = PACKETS
    /\ obs.reads = PACKETS
    /\ packets_remaining = 0
    /\ obs.responses = <<HTTP_TIMEOUT>>
    /\ pc = "aborted"

IndexOf(s, pat, from) ==
    LET idx == {i \in (from + 1)..(Len(s) - Len(pat) + 1) :
                   SubSeq(s, i, i + Len(pat) - 1) = pat}
    IN  IF idx = {} THEN 0 ELSE SetMin(idx)

\* the digit after "HTTP/1." on the request line received
VersionMinor(head) ==
    LET pat == Str(<<"H", "T", "T", "P", "/", "1", ".">>)
        j == IndexOf(head, pat, 0)
    IN  IF j = 0 \/ j + Len(pat) > Len(head) THEN 0 ELSE head[j + Len(pat)]

\* the lowercase first byte of the value of the first request's Connection
\* header as received, 0 without such a header or value
ConnectionTag(head) ==
    LET pat == CRLF \o Str(<<"C", "o", "n", "n", "e", "c", "t", "i", "o", "n", ":", " ">>)
        line == IndexOf(head, Str(<<"H", "T", "T", "P", "/", "1", ".">>), 0)
        headend == IndexOf(head, CRLF \o CRLF, line)
        i == IndexOf(head, pat, line)
        v == head[i + Len(pat)]
    IN  IF i = 0 \/ i > headend \/ v = CR THEN 0
        ELSE IF v \in 65..90 THEN v + 32 ELSE v

\* what HTTP says about the request received
ExpectedKeepAlive(head) ==
    IF VersionMinor(head) = 48 THEN ConnectionTag(head) = 107 ELSE ConnectionTag(head) # 99

C8_HandlerGuard ==
    /\ obs.handler_calls <= obs.lookups
    /\ pc = "handler" =>
          /\ url_map \in UrlMaps
          /\ obs.lookups = obs.handler_calls + 1
          /\ "HANDLER_MUST_AUTHORIZE" \in url_map.flags => obs.auth_called /\ obs.auth_ok
    /\ pc = "returned" /\ obs.lookups > 0 /\ url_map = NoUrlMap =>
          /\ obs.responses = <<HTTP_NOT_FOUND>>
          /\ obs.handler_calls = obs.lookups - 1
    /\ pc = "returned" /\ obs.auth_called /\ ~obs.auth_ok =>
          /\ obs.responses = <<HTTP_NOT_AUTHORIZED>>
          /\ obs.handler_calls = obs.lookups - 1
    /\ pc = "returned" /\ obs.lookups > 0 => Len(obs.responses) = 1
    /\ pc = "returned" /\ obs.handler_calls < obs.lookups =>
          obs.responses[1] \in {HTTP_NOT_FOUND, HTTP_NOT_AUTHORIZED, HTTP_NOT_ALLOWED}

\* after a rewrite, the handler of a url_map that must authorize is about to
\* run, the authorization having succeeded
C8_Witness ==
    /\ pc = "handler"
    /\ helper.urls_rewritten > 0
    /\ "HANDLER_MUST_AUTHORIZE" \in url_map.flags
    /\ obs.auth_ok

\* C9: a POST whose url_map lacks HANDLER_PARSE_POST_DATA is answered with
\* HTTP 405 without a handler call for that url_map and without a call of
\* lwan_http_authorize.
C9_PostNotAllowed ==
    /\ "REQUEST_METHOD_POST" \in request.flags
    /\ url_map \in UrlMaps
    /\ "HANDLER_PARSE_POST_DATA" \notin url_map.flags
    /\ pc # "prepare"
    => /\ pc = "returned"
       /\ obs.responses = <<HTTP_NOT_ALLOWED>>
       /\ obs.handler_calls = obs.lookups - 1
       /\ ~obs.auth_called

\* a POST for a url_map that must authorize but does not parse POST data was
\* answered with 405, after a rewrite, without authorization
C9_Witness ==
    /\ "REQUEST_METHOD_POST" \in request.flags
    /\ url_map = UrlMap({"HANDLER_MUST_AUTHORIZE"})
    /\ obs.lookups > 1
    /\ obs.responses = <<HTTP_NOT_ALLOWED>>
    /\ ~obs.auth_called
    /\ pc = "returned"

\* C10 as stated: a POST whose head is followed in the buffer by exactly
\* Content-Length body bytes and nothing else is parsed with HTTP_OK, post_data
\* the body's slice and next_request just past the body.
C10_PostBodyAsStated ==
    /\ sc.kind = "post_exact"
    /\ calls = 1
    /\ obs.stage # "none"
    /\ obs.head = sc.bytes
    => /\ obs.status = HTTP_OK
       /\ helper.post_data = Slice(Len(PostRequest(0)) + 1, Len(sc.bytes) - Len(PostRequest(0)))
       /\ helper.next_request = Len(sc.bytes) + 1

\* the first call of a POST whose body is not exactly Content-Length bytes has
\* run parse_http_request
PostErrorParsed ==
    /\ sc.kind = "post_error"
    /\ calls = 1
    /\ obs.stage # "none"

\* the bytes resident after the head when the request was parsed
Resident == Len(obs.head) - sc.len1

\* the status C11 names for the Content-Length and the resident bytes; 0 when
\* it names none (the body is exactly Content-Length bytes)
StatedBodyStatus ==
    IF ~sc.cl.present \/ sc.cl.class \in {"negative", "unparseable"} THEN HTTP_BAD_REQUEST
    ELSE IF sc.cl.value > DEFAULT_BUFFER_SIZE THEN HTTP_TOO_LARGE
    ELSE IF sc.cl.value > Resident THEN HTTP_TOO_LARGE
    ELSE IF sc.cl.value < Resident THEN HTTP_NOT_IMPLEMENTED
    ELSE 0

\* C11 as stated: for a POST, a Content-Length greater than the bytes resident
\* after the head yields HTTP 413, one smaller than the resident bytes yields
\* HTTP 501, a missing, negative or unparseable one yields HTTP 400, and one
\* above DEFAULT_BUFFER_SIZE yields HTTP 413; in each case post_data stays
\* unset, next_request is not advanced and no lookup or handler follows.
C11_BodyReaderAsStated ==
    PostErrorParsed /\ StatedBodyStatus # 0 =>
        /\ obs.status = StatedBodyStatus
        /\ helper.post_data = NoSlice
        /\ helper.next_request \in {NULL, sc.len1 + 1}
        /\ obs.lookups = 0
        /\ obs.handler_calls = 0

\* C11 as stated, for a decimal Content-Length no larger than the buffer
C11_DecimalAsStated ==
    sc.cl.class = "decimal" /\ sc.cl.value <= DEFAULT_BUFFER_SIZE => C11_BodyReaderAsStated

\* what the body reader does: with fewer than three bytes resident after the
\* head every POST is answered HTTP 400
C11_Observed ==
    PostErrorParsed =>
        /\ obs.stage = "post_data"
        /\ Resident < 3 => obs.status = HTTP_BAD_REQUEST /\ helper.next_request = NULL
        /\ Resident >= 3 =>
              obs.status = IF ~sc.cl.present \/ sc.cl.class = "negative" THEN HTTP_BAD_REQUEST
                           ELSE IF sc.cl.class = "unparseable" THEN HTTP_TOO_LARGE
                           ELSE StatedBodyStatus
\* C12: when read_request returns HTTP 400 and helper.next_request is set,
\* lwan_process_request emits no response, does not abort the coroutine, runs
\* no parsing, lookup or handler, and returns that pointer to its caller.
C12_BadRequestWithTail ==
    obs.framing = HTTP_BAD_REQUEST /\ helper.next_request # NULL =>
        /\ pc = "returned"
        /\ obs.responses = <<>>
        /\ obs.stage = "none"
        /\ obs.proxy_calls = 0
        /\ obs.lookups = 0
        /\ obs.handler_calls = 0
        /\ next_request = helper.next_request

\* a call entered with a tail pointer got a read() error before any byte and
\* returned the pointer without a response
C12_Witness ==
    /\ obs.framing = HTTP_BAD_REQUEST
    /\ helper.next_request # NULL
    /\ calls = 2
    /\ pc = "returned"
    /\ obs.did_read
    /\ obs.responses = <<>>
    /\ next_request = helper.next_request
\* parse_http_request rejected the request line, the header block or the URL
MalformedParsed ==
    /\ sc.kind = "malformed"
    /\ calls = 1
    /\ obs.stage \in {"path", "headers", "url"}

RECURSIVE SkipSpaces(_, _)
SkipSpaces(s, i) ==
    IF i <= Len(s) /\ s[i] \in {9, 10, 13, 32} THEN SkipSpaces(s, i + 1) ELSE i

\* the length of the PROXY preamble the client sent before the request
PreambleLen == IF sc.allow_proxy /\ calls = 1 THEN sc.preamble ELSE 0

\* where the method starts in the bytes that were parsed, and its four bytes
MethodStart == SkipSpaces(obs.head, PreambleLen + 1)
MethodTag == [i \in 1..4 |-> IF MethodStart + i - 1 <= Len(obs.head)
                            THEN obs.head[MethodStart + i - 1] ELSE 0]

MethodFlags == {"REQUEST_METHOD_GET", "REQUEST_METHOD_HEAD", "REQUEST_METHOD_POST"}

\* the method flag of a four-byte tag
FlagOfTag(tag) ==
    IF tag = Str(<<"G", "E", "T", " ">>) THEN {"REQUEST_METHOD_GET"}
    ELSE IF tag = Str(<<"H", "E", "A", "D">>) THEN {"REQUEST_METHOD_HEAD"}
    ELSE IF tag = Str(<<"P", "O", "S", "T">>) THEN {"REQUEST_METHOD_POST"}
    ELSE {}

\* C14: after the optional PROXY preamble and the leading whitespace, four
\* bytes other than "GET ", "HEAD" and "POST" set no method flag and are
\* answered HTTP 400 if the first of them is NUL and HTTP 405 otherwise;
\* a request that proceeds to path parsing has exactly one method flag set.
C14_MethodDispatch ==
    obs.stage \notin {"none", "proxy"} =>
        IF FlagOfTag(MethodTag) = {}
        THEN /\ obs.stage = "method"
             /\ request.flags \cap MethodFlags = {}
             /\ obs.status = IF MethodTag[1] = 0 THEN HTTP_BAD_REQUEST ELSE HTTP_NOT_ALLOWED
             /\ obs.responses = <<obs.status>>
             /\ obs.lookups = 0
        ELSE /\ obs.stage # "method"
             /\ request.flags \cap MethodFlags = FlagOfTag(MethodTag)
             /\ Cardinality(request.flags \cap MethodFlags) = 1

\* an unknown method behind leading whitespace was answered HTTP 405
C14_Witness ==
    /\ sc.kind = "method"
    /\ obs.stage = "method"
    /\ MethodStart > 1
    /\ MethodTag = Str(<<"P", "U", "T", " ">>)
    /\ request.flags \cap MethodFlags = {}
    /\ obs.responses = <<HTTP_NOT_ALLOWED>>
\* C15 as stated: parse_key_values collects at most 32 pairs, and every
\* write to the array it allocated, the terminating sentinel included, is at
\* an index inside the 32-element allocation, for every input.
C15_KeyValueBoundAsStated ==
    /\ Len(kv.collected) <= N_ELEMENTS
    /\ \A w \in kv.writes : w >= 0 /\ w < N_ELEMENTS

\* what parse_key_values does: at most 32 pairs are collected, and the only
\* write outside the allocation is the sentinel after 32 collected pairs
C15_Observed ==
    /\ Len(kv.collected) <= N_ELEMENTS
    /\ \A w \in kv.writes : w >= 0 /\ w <= N_ELEMENTS
    /\ N_ELEMENTS \in kv.writes <=>
          kv.pc \in {"parsed", "looked_up"} /\ ~kv.returned /\ kv.array.len = N_ELEMENTS
\* the keys of the pairs parse_key_values put into kvs[]
CollectedKeys == {CStr(kv.buf, kv.collected[i].key) : i \in 1..Len(kv.collected)}

\* parse_key_values returned from inside its loop after collecting pairs
ReturnedAfterPairs ==
    /\ kv.pc \in {"parsed", "looked_up"}
    /\ kv.returned
    /\ kv.collected # <<>>

\* C16 as stated: when the decoder returns 0 for a key or value, a later
\* pair has no '=' or the slice ends with a trailing separator, the pairs
\* collected before that point are the parsed list and can be retrieved
\* through the lookup functions.
C16_FailSoftAsStated ==
    ReturnedAfterPairs =>
        /\ kv.array.len = Len(kv.collected)
        /\ kv.pc = "looked_up" /\ kv.key \in CollectedKeys => kv.found # NULL

\* what parse_key_values does: a return from inside the loop stores nothing,
\* and no key is found afterwards
C16_Observed ==
    kv.pc \in {"parsed", "looked_up"} /\ kv.returned =>
        /\ kv.array = NoArray
        /\ kv.pc = "looked_up" => kv.found = NULL
\* the keys of the stored array, in its order
StoredKeys == [i \in 1..kv.array.len |-> CStr(kv.buf, kv.array.base[i].key)]

\* the number of times the pair x occurs in the sequence of pairs s
Occurrences(s, x) == Cardinality({i \in 1..Len(s) : s[i] = x})

\* s is no greater than t in the order of strcmp on unsigned bytes
KeyLeq(s, t) ==
    \/ \E i \in 1..Len(s) :
          /\ i <= Len(t)
          /\ SubSeq(s, 1, i - 1) = SubSeq(t, 1, i - 1)
          /\ s[i] < t[i]
    \/ Len(s) <= Len(t) /\ s = SubSeq(t, 1, Len(s))

\* parse_key_values ran to its end and stored an array
KvStored == kv.pc \in {"parsed", "looked_up"} /\ ~kv.returned

\* C17: after a successful parse_key_values the stored array is sorted by
\* key, strcmp(kv[i].key, kv[j].key) <= 0 for all i < j < len, and the stored
\* pairs are a permutation of the collected pairs.
C17_KeyValueSort ==
    KvStored =>
        /\ kv.array.len = Len(kv.collected)
        /\ Len(kv.array.base) = kv.array.len
        /\ \A i, j \in 1..kv.array.len : i < j => KeyLeq(StoredKeys[i], StoredKeys[j])
        /\ \A i \in 1..Len(kv.collected) :
              Occurrences(kv.array.base, kv.collected[i])
                  = Occurrences(kv.collected, kv.collected[i])

\* three pairs that came in another order were stored sorted by key
C17_Witness ==
    /\ KvStored
    /\ kv.array.len = 3
    /\ kv.array.base # kv.collected
    /\ StoredKeys = <<Str(<<"a">>), Str(<<"b">>), Str(<<"c">>)>>
\* the stored entries whose key begins with the key that was looked up
PrefixEntries ==
    { i \in 1..kv.array.len :
        /\ Len(StoredKeys[i]) >= Len(kv.key)
        /\ SubSeq(StoredKeys[i], 1, Len(kv.key)) = kv.key }

\* C18: on the sorted list the lookup returns null iff no stored key has the
\* searched key as a prefix, and otherwise the value of some stored entry
\* whose key begins with the searched key, which need not be the entry with
\* exactly that key; on an empty list it returns null.
C18_Lookup ==
    kv.pc = "looked_up" =>
        /\ kv.found = NULL <=> PrefixEntries = {}
        /\ kv.found # NULL => \E i \in PrefixEntries : kv.array.base[i].value = kv.found
        /\ kv.array.len = 0 => kv.found = NULL

\* a lookup of "foo" on a list that holds "foo" and "foobar" returned the
\* value stored under "foobar"
C18_Witness ==
    /\ kv.pc = "looked_up"
    /\ kv.key = Str(<<"f", "o", "o">>)
    /\ kv.found # NULL
    /\ \E i, j \in PrefixEntries :
          /\ StoredKeys[i] = kv.key
          /\ StoredKeys[j] # kv.key
          /\ kv.array.base[j].value = kv.found
          /\ kv.array.base[i].value # kv.found

\* the preamble the client sent, and the tag the reader dispatches on
PreambleSent == SubSeq(sc.bytes, 1, sc.preamble)
HeadTag == [i \in 1..4 |-> IF i <= Len(obs.head) THEN obs.head[i] ELSE 0]
Tagged == HeadTag \in {Str(<<"P", "R", "O", "X">>), <<13, 10, 13, 10>>}

\* a decimal port in [0, 65535]
WellFormedPort(s) ==
    /\ Len(s) \in 1..5
    /\ \A i \in 1..Len(s) : IsDigit(s[i])
    /\ DecimalValue(s) <= 65535

\* the v1 wire format: "PROXY", TCP4 or TCP6, two addresses of that family
\* and two ports, separated by single spaces and ended by CR LF
WellFormedV1(pre) ==
    /\ Len(pre) >= 2
    /\ SubSeq(pre, Len(pre) - 1, Len(pre)) = CRLF
    /\ LET fields == Split(SubSeq(pre, 1, Len(pre) - 2), 32)
       IN  /\ Len(fields) = 6
           /\ fields[1] = Str(<<"P", "R", "O", "X", "Y">>)
           /\ \/ /\ fields[2] = Str(<<"T", "C", "P", "4">>)
                 /\ inet_pton4(fields[3]).ok /\ inet_pton4(fields[4]).ok
              \/ /\ fields[2] = Str(<<"T", "C", "P", "6">>)
                 /\ inet_pton6(fields[3]).ok /\ inet_pton6(fields[4]).ok
           /\ \A i \in 1..(Len(pre) - 2) : pre[i] # CR
           /\ WellFormedPort(fields[5]) /\ WellFormedPort(fields[6])

\* the v2 wire format: the 12-byte signature, LOCAL or PROXY, the length of
\* what follows the 16 bytes, which holds the addresses of the family
WellFormedV2(pre) ==
    /\ Len(pre) >= PROTO_SIGNATURE_LENGTH
    /\ SubSeq(pre, 1, 12) = V2Signature
    /\ Len(pre) = PROTO_SIGNATURE_LENGTH + pre[15] * 256 + pre[16]
    /\ \/ pre[13] = 32
       \/ pre[13] = 33 /\ pre[14] = 17 /\ Len(pre) >= PROTO_SIGNATURE_LENGTH + 12
       \/ pre[13] = 33 /\ pre[14] = 33 /\ Len(pre) >= PROTO_SIGNATURE_LENGTH + 36

\* the client sent a tagged preamble that does not follow its wire format
MalformedPreamble ==
    /\ Tagged
    /\ IF HeadTag = <<13, 10, 13, 10>> THEN ~WellFormedV2(PreambleSent)
       ELSE ~WellFormedV1(PreambleSent)

\* the first call on a connection that accepts the preamble has parsed
ProxyReaderRan == sc.allow_proxy /\ calls = 1 /\ obs.proxy_calls = 1

\* on success: the flag, the families and the cursor
PreambleAccepted ==
    /\ "REQUEST_PROXIED" \in request.flags
    /\ proxy.from.family \in {"AF_INET", "AF_INET6", "AF_UNSPEC"}
    /\ proxy.to.family = proxy.from.family
    /\ proxy.from.family = "AF_UNSPEC" => HeadTag = <<13, 10, 13, 10>> /\ obs.head[13] = 32
    /\ obs.preamble_end = sc.preamble + 1

\* on rejection: HTTP 400 and no flag
PreambleRejected ==
    /\ obs.preamble_end = NULL
    /\ obs.stage = "proxy"
    /\ obs.status = HTTP_BAD_REQUEST
    /\ "REQUEST_PROXIED" \notin request.flags

\* without a tag: the cursor and the flag as they were
PreambleAbsent ==
    /\ obs.preamble_end = 1
    /\ "REQUEST_PROXIED" \in request.flags <=> "REQUEST_PROXIED" \in obs.entry_flags
    /\ proxy = NoProxy

\* C19 as stated: on a connection that accepts the preamble, every malformed
\* v1 or v2 preamble is answered HTTP 400 without REQUEST_PROXIED; an
\* accepted preamble sets REQUEST_PROXIED, both families and the cursor just
\* behind the preamble; bytes with neither tag leave cursor and flag alone.
C19_PreambleAsStated ==
    ProxyReaderRan =>
        /\ MalformedPreamble => PreambleRejected
        /\ Tagged /\ obs.preamble_end # NULL => PreambleAccepted
        /\ ~Tagged => PreambleAbsent

\* what the reader does: a malformed preamble is answered HTTP 400 or
\* accepted; whatever it rejects is malformed or longer than the header's
\* footprint; the outcomes are those of the statement
C19_Observed ==
    ProxyReaderRan =>
        /\ Tagged /\ obs.preamble_end = NULL =>
              /\ PreambleRejected
              /\ MalformedPreamble \/ sc.preamble > V2_SIZE
        /\ Tagged /\ obs.preamble_end # NULL => PreambleAccepted
        /\ ~Tagged => PreambleAbsent

\* a malformed preamble was accepted: REQUEST_PROXIED is set
C19_MalformedAccepted ==
    /\ ProxyReaderRan
    /\ MalformedPreamble
    /\ "REQUEST_PROXIED" \in request.flags
    /\ obs.status = HTTP_OK

\* C20 as stated: urls_rewritten <= 4 in every state of a call, the state
\* in which the limit is detected and HTTP 500 is emitted included.
C20_RewriteCounterAsStated == helper.urls_rewritten <= MAX_REWRITES

\* C20: urls_rewritten <= 5 in every state of a lwan_process_request call;
\* it is at most 4 wherever the call goes on after a rewrite, and it is 5
\* exactly in the state in which the limit was detected, where HTTP 500 is
\* the call's only response and the call has returned.
C20_RewriteCounter ==
    /\ helper.urls_rewritten \in 0..(MAX_REWRITES + 1)
    /\ pc # "returned" => helper.urls_rewritten <= MAX_REWRITES
    /\ helper.urls_rewritten > MAX_REWRITES <=>
          /\ pc = "returned"
          /\ obs.responses = <<HTTP_INTERNAL_ERROR>>

\* the limit was detected: the counter is 5 behind the HTTP 500 of a handler
\* that may rewrite the URL
C20_Witness ==
    /\ helper.urls_rewritten = MAX_REWRITES + 1
    /\ "HANDLER_CAN_REWRITE_URL" \in url_map.flags
    /\ obs.lookups = MAX_REWRITES + 1
    /\ obs.responses = <<HTTP_INTERNAL_ERROR>>

\* the length of the tail a call is entered with
TailLength == buffer_len - (next_request - 1)

\* the step of ProcessRequest that takes the fast path: the tail is at the
\* buffer head, total_read is its length, the reader has returned HTTP 200
\* with next_request reset, without a read() and without a yield
FastPathTaken ==
    /\ pc' = "parse"
    /\ total_read' = TailLength
    /\ buffer_len' = TailLength
    /\ SubSeq(buf', 1, TailLength) = SubSeq(buf, next_request, buffer_len)
    /\ buf'[TailLength + 1] = 0
    /\ helper'.next_request = NULL
    /\ obs'.framing = HTTP_OK
    /\ obs'.reads = 0 /\ ~obs'.did_read /\ sent' = sent
    /\ obs'.yields = 0
    /\ "CONN_MUST_READ" \notin conn_flags'

\* the step of ProcessRequest that moves the tail and yields for more bytes
FastPathYields ==
    /\ pc' = "yielded"
    /\ total_read' = TailLength
    /\ SubSeq(buf', 1, TailLength) = SubSeq(buf, next_request, buffer_len)
    /\ helper'.next_request = next_request
    /\ "CONN_MUST_READ" \in conn_flags'
    /\ obs'.reads = 0 /\ sent' = sent

NothingBehindReader ==
    /\ obs.responses = <<>>
    /\ obs.stage = "none"
    /\ obs.proxy_calls = 0
    /\ obs.lookups = 0
    /\ obs.handler_calls = 0

\* the outcomes of the reader's last read()
ReadOutcomes ==
    /\ obs.read_result = "shutdown" =>
          /\ pc = "aborted"
          /\ obs.framing = 0
          /\ NothingBehindReader
    /\ obs.read_result = "error" /\ total_read = 0 =>
          /\ obs.framing = HTTP_BAD_REQUEST
          /\ obs.stage = "none" /\ obs.lookups = 0 /\ obs.handler_calls = 0
    /\ obs.read_result = "error" /\ total_read > 0 =>
          /\ pc = "aborted"
          /\ obs.framing = 0
          /\ NothingBehindReader

\* C22: a read() returning 0 aborts the coroutine without a response; a
\* read() failing with an errno other than EAGAIN and EINTR makes the reader
\* return HTTP 400 when total_read = 0 and aborts the coroutine without a
\* response when total_read > 0; an aborted coroutine takes no further step.
C22_ReadFailures == [] ReadOutcomes /\ [][pc # "aborted"]_vars

\* a read() failed behind accumulated bytes and the coroutine was aborted
\* without a response
C22_Witness ==
    /\ obs.read_result = "error"
    /\ total_read > 0
    /\ pc = "aborted"
    /\ obs.responses = <<>>

\* the coroutine is suspended inside the socket reader, CONN_MUST_READ set
SuspendedInReader ==
    /\ "CONN_MUST_READ" \in conn_flags
    /\ obs.framing = 0
    /\ NothingBehindReader

\* the reader has returned HTTP 200 and the driver is about to parse
ReaderReturnedOk == pc = "parse"

\* C23 as stated: the coroutine yields with CONN_CORO_MAY_RESUME only inside
\* the socket reader and only in response to a read() failing with EAGAIN or
\* EINTR, with CONN_MUST_READ set just before; CONN_MUST_READ is clear
\* whenever the reader returns HTTP 200.
C23_SuspensionAsStated ==
    /\ pc = "yielded" => SuspendedInReader /\ obs.read_result = "again"
    /\ ReaderReturnedOk => "CONN_MUST_READ" \notin conn_flags

\* C23: the coroutine yields with CONN_CORO_MAY_RESUME only inside the socket
\* reader, in response to a read() failing with EAGAIN or EINTR or to the
\* finalizer finding fewer than 4 bytes resident behind a read() or a moved
\* tail; CONN_MUST_READ is set just before every such yield and is clear
\* whenever the reader returns HTTP 200.
C23_Suspension ==
    /\ pc = "yielded" =>
          /\ SuspendedInReader
          /\ \/ obs.read_result = "again"
             \/ obs.read_result = "data" /\ total_read < 4
             \/ obs.read_result = "none" /\ total_read < 4 /\ helper.next_request # NULL
    /\ ReaderReturnedOk => "CONN_MUST_READ" \notin conn_flags

\* the reader yielded, was resumed, and returned HTTP 200 with CONN_MUST_READ
\* clear
C23_Witness ==
    /\ ReaderReturnedOk
    /\ obs.yields > 0
    /\ obs.read_result = "data"
    /\ "CONN_MUST_READ" \notin conn_flags

\* CR LF CR LF occurs in s
HasEndOfHead(s) == \E i \in 1..(Len(s) - 3) : SubSeq(s, i, i + 3) = <<13, 10, 13, 10>>

\* C24 as stated: whenever the socket reader returns HTTP 200 the first
\* buffer.len bytes of the buffer contain CR LF CR LF, whether they came from
\* read() or from a pipelined tail, a tail of fewer than 4 bytes extended by a
\* later read() included.
C24_FramingAsStated == ReaderReturnedOk => HasEndOfHead(SubSeq(buf, 1, buffer_len))

\* what the reader does: the bytes hold CR LF CR LF when the call was entered
\* without a tail pointer
C24_Observed ==
    ReaderReturnedOk /\ obs.entry_tail = NULL => HasEndOfHead(SubSeq(buf, 1, buffer_len))

\* the call left through the framing-stage HTTP 400 with a pipelined tail
BadRequestWithTailTaken == obs.framing = HTTP_BAD_REQUEST /\ obs.entry_tail # NULL

\* the responses of a call, in every state
ResponseCount ==
    /\ Len(obs.responses) <= 1
    /\ pc = "returned" =>
          Len(obs.responses) = IF BadRequestWithTailTaken THEN 0 ELSE 1
    /\ pc \in {"read", "yielded", "parse", "lookup", "prepare", "handler"} =>
          obs.responses = <<>>

\* C25: every path through lwan_process_request emits at most one response;
\* a call that returns to its caller has emitted exactly one, except behind
\* the framing-stage HTTP 400 with a pipelined tail, where it has emitted
\* none; a handler whose result is superseded by an accepted rewrite emits no
\* response in that iteration.
C25_ResponseCount ==
    /\ [] ResponseCount
    /\ [][pc = "handler" /\ pc' = "lookup" =>
             /\ obs'.handler_calls = obs.handler_calls + 1
             /\ obs'.responses = <<>>]_vars

\* a call returned with one response behind a handler whose first result was
\* superseded by a rewrite
C25_Witness ==
    /\ pc = "returned"
    /\ obs.handler_calls = 2
    /\ helper.urls_rewritten = 1
    /\ Len(obs.responses) = 1

\* C26 as stated: over any sequence of lwan_process_request calls in which
\* each call receives the previous call's return value and the same buffer,
\* every non-null next_request passed in lies between buffer.value and
\* buffer.value + buffer.len, so the tail length never underflows, also behind
\* a framing-stage HTTP 400 that returned the tail pointer unchanged.
C26_TailPointerAsStated ==
    [][calls' = calls + 1 /\ next_request # NULL =>
          /\ next_request \in 1..(buffer_len + 1)
          /\ TailLength >= 0
          /\ pc' # "crashed"]_vars

\* what the calls do: the pointer is within the buffered bytes unless the
\* previous call left through the framing-stage HTTP 400 with a tail
C26_Observed ==
    [][calls' = calls + 1 /\ next_request # NULL /\ ~BadRequestWithTailTaken =>
          /\ next_request \in 1..(buffer_len + 1)
          /\ pc' # "crashed"]_vars

\* the reader ran on a v2 header with command PROXY and a known family
V2ProxyCommand ==
    /\ ProxyReaderRan
    /\ HeadTag = <<13, 10, 13, 10>>
    /\ Len(obs.head) >= PROTO_SIGNATURE_LENGTH
    /\ obs.head[13] = 33
    /\ obs.head[14] \in {17, 33}

\* the length the header declares, and the bytes of addresses and ports the
\* reader copies for the declared family
V2DeclaredLength == obs.head[15] * 256 + obs.head[16]
V2CopiedBytes == IF obs.head[14] = 17 THEN 12 ELSE 36

\* C27 as stated: for an accepted v2 preamble with command PROXY every
\* address and port byte copied lies within the 16 + length bytes consumed,
\* so no byte is both a proxy address and request data; a declared length
\* too short for the declared family is answered as a bad request.
C27_V2ConsumptionAsStated ==
    V2ProxyCommand =>
        /\ obs.preamble_end # NULL =>
              PROTO_SIGNATURE_LENGTH + V2CopiedBytes < obs.preamble_end
        /\ V2DeclaredLength < V2CopiedBytes =>
              /\ obs.preamble_end = NULL
              /\ obs.status = HTTP_BAD_REQUEST
              /\ "REQUEST_PROXIED" \notin request.flags

\* what the reader does: it consumes 16 + length bytes, whatever it copied
C27_Observed ==
    V2ProxyCommand /\ obs.preamble_end # NULL =>
        /\ obs.preamble_end = PROTO_SIGNATURE_LENGTH + V2DeclaredLength + 1
        /\ proxy.from.addr = SubSeq(obs.head, 17, IF obs.head[14] = 17 THEN 20 ELSE 32)

\* the name of the header line of a one-header request: the bytes between the
\* request line and the colon
HeaderNameSent ==
    LET start == Len(RequestLine(GET, Str(<<"/">>), 49)) + 1
        colon == CHOOSE i \in start..Len(sc.bytes) :
                    /\ sc.bytes[i] = 58
                    /\ \A j \in start..(i - 1) : sc.bytes[j] # 58
    IN  SubSeq(sc.bytes, start, colon - 1)

\* the header parser ran on the one-header request
HeaderParsed == sc.kind = "header" /\ calls = 1 /\ obs.stage # "none"

\* C28 as stated: the header parser records accept_encoding only from a line
\* named Accept-Encoding, content_type only from Content-Type and
\* content_length only from Content-Length; a line with another name, such
\* as Content-Encoding, Accept-Length or -Length, sets none of the three.
C28_HeaderAttributionAsStated ==
    HeaderParsed =>
        /\ helper.accept_encoding # NoSlice => HeaderNameSent = AcceptEncoding
        /\ helper.content_type # NoSlice => HeaderNameSent = ContentType
        /\ helper.content_length # NoSlice => HeaderNameSent = ContentLengthName

\* what the header parser does: behind any run of "Accept" and "Content" the
\* suffixes -Encoding, -Type and -Length select the field
C28_Observed ==
    HeaderParsed =>
        /\ helper.accept_encoding # NoSlice <=>
              HeaderNameSent \in {AcceptEncoding, ContentEncoding}
        /\ helper.content_type # NoSlice <=> HeaderNameSent \in {ContentType, AcceptType}
        /\ helper.content_length # NoSlice <=>
              HeaderNameSent \in {ContentLengthName, AcceptLength, DashLength}
====
